---- MODULE Spec2Model ----
(***************************************************************************)
(* A model of ipgrep's scanning core.                                      *)
(*                                                                         *)
(*   - NetLikeScanner (src/src/netlike.rs): the cursor-driven lexical      *)
(*     scanner.  A buffer is a sequence of byte values (ASCII codes); the  *)
(*     Rust code indexes it from 0, so byte i of the code is bytes[i + 1]  *)
(*     here (operator At).                                                 *)
(*   - NetCandidateScanner (src/src/scanner.rs): the builder calls, the    *)
(*     prefilters and find_all.                                            *)
(*   - Net (src/src/net.rs): parsing of a slice into a network value.      *)
(*   - Needle (src/src/needle.rs) and MatchMode (src/src/matching.rs): the *)
(*     needles and the match modes.                                        *)
(*   - run (src/src/core.rs) and main (src/src/main.rs): the loop over the *)
(*     files and the exit status.                                          *)
(*                                                                         *)
(* A Rust panic (an index out of bounds, a failed assert!) is modelled as  *)
(* an outcome of its own: it is never silently turned into a result.       *)
(***************************************************************************)
EXTENDS Integers, Sequences, FiniteSets, TLC

VARIABLES
    buf,            \* the byte buffer: NetLikeScanner.buf, find_all's buf
    pos,            \* NetLikeScanner.pos: the cursor
    restrict,       \* NetLikeScanner.restrict
    results,        \* history: the outcome of every call to next(), in order
    include_ipv4,   \* NetCandidateScanner.include_ipv4
    include_ipv6,   \* NetCandidateScanner.include_ipv6
    accept,         \* NetCandidateScanner.accept
    interface_mode, \* NetCandidateScanner.interface_mode
    usable,         \* FALSE once a builder call has panicked
    found,          \* what the last find_all call on this scanner came to
    needle,         \* a needle argument and what Needle::try_from made of it
    haystack,       \* the haystack argument of MatchMode::matches
    needle_net,     \* the needle argument of MatchMode::matches
    matched,        \* what the last call of MatchMode::matches came to
    netval,         \* a Net: its text, its value and the last call on it
    run,            \* core::run: its parameters, its files and its progress
    scans,          \* the find_all calls under way on one shared scanner
    ctx,            \* a ContextBuffer and the answer of the last call on it
    fsi             \* a FileSourceIter, the file tree and the items yielded

ncs_vars == <<include_ipv4, include_ipv6, accept, interface_mode, usable, found>>
match_vars ==
    <<needle, haystack, needle_net, matched, netval, run, scans, ctx, fsi>>
vars == <<buf, pos, restrict, results, include_ipv4, include_ipv6, accept,
          interface_mode, usable, found, needle, haystack, needle_net,
          matched, netval, run, scans, ctx, fsi>>

----------------------------------------------------------------------------
(* Bounds of the model.                                                    *)

\* A buffer is the concatenation of at most MaxTokens fragments of Tokens.
MaxTokens == 4

\* The caller stops calling next() once it has been answered None this
\* many times.
MaxNone == 2

\* A line is at most MaxWords words joined by single spaces.
MaxWords == 2

\* A repeating line holds its word at most MaxRepeat times.
MaxRepeat == 2

\* run is given at most MaxFiles files of at most MaxLines lines each.
MaxFiles == 2
MaxLines == 2

\* A ContextBuffer keeps at most MaxContext lines before and after, sees
\* the line numbers up to MaxLineno, and is pushed at most MaxPush lines
\* between two clears.
MaxContext == 2
MaxLineno == 3
MaxPush == 3

\* A FileSourceIter pops at most MaxPops entries off its stack.
MaxPops == 12

----------------------------------------------------------------------------
(* Bytes and byte classes, as the match arms of netlike.rs write them.     *)

Min(a, b) == IF a < b THEN a ELSE b

\* bytes[i] of the Rust code, for an index inside the buffer.
At(bytes, i) == bytes[i + 1]

\* Whether index i can be read without a panic.
InBuf(bytes, i) == i >= 0 /\ i < Len(bytes)

\* b'0'..=b'9'  (u8::is_ascii_digit)
IsDigit(b) == b >= 48 /\ b <= 57

\* b'a'..=b'f' | b'A'..=b'F'
IsHexLetter(b) == (b >= 97 /\ b <= 102) \/ (b >= 65 /\ b <= 70)

\* u8::is_ascii_hexdigit
IsHexDigit(b) == IsDigit(b) \/ IsHexLetter(b)

\* b'a'..=b'z' | b'A'..=b'Z'  (u8::is_ascii_alphabetic)
IsAlpha(b) == (b >= 97 /\ b <= 122) \/ (b >= 65 /\ b <= 90)

IsColon(b) == b = 58
IsPeriod(b) == b = 46
IsSlash(b) == b = 47

\* A byte of IPV46_START: b"0123456789abcdefABCDEF:"
IsIpv46Start(b) == IsDigit(b) \/ IsHexLetter(b) \/ IsColon(b)

----------------------------------------------------------------------------
(* Outcomes of a scanner function: the new cursor and what was returned.   *)
(* kind is "some" (a span start..end), "none", or "panic".                 *)

RetSome(p, s, e) == [pos |-> p, kind |-> "some", start |-> s, end |-> e]
RetNone(p) == [pos |-> p, kind |-> "none", start |-> 0, end |-> 0]
RetPanic(p) == [pos |-> p, kind |-> "panic", start |-> 0, end |-> 0]

----------------------------------------------------------------------------
(* NetLikeScanner::seek_to_non_digit / _period / _letter                   *)

RECURSIVE SeekDigits(_, _)
SeekDigits(bytes, i) ==
    IF i < Len(bytes) /\ IsDigit(At(bytes, i))
    THEN SeekDigits(bytes, i + 1)
    ELSE i

seek_to_non_digit(bytes, start) ==
    RetNone(Min(Len(bytes), SeekDigits(bytes, start) + 1))

RECURSIVE SeekDigitsPeriods(_, _)
SeekDigitsPeriods(bytes, i) ==
    IF i < Len(bytes) /\ (IsDigit(At(bytes, i)) \/ IsPeriod(At(bytes, i)))
    THEN SeekDigitsPeriods(bytes, i + 1)
    ELSE i

seek_to_non_digit_period(bytes, start) ==
    RetNone(Min(Len(bytes), SeekDigitsPeriods(bytes, start) + 1))

RECURSIVE SeekLetters(_, _)
SeekLetters(bytes, i) ==
    IF i < Len(bytes) /\ IsAlpha(At(bytes, i))
    THEN SeekLetters(bytes, i + 1)
    ELSE i

seek_to_non_letter(bytes, start) ==
    RetNone(Min(Len(bytes), SeekLetters(bytes, start) + 1))

----------------------------------------------------------------------------
(* NetLikeScanner::maybe_netmask                                           *)

\* The loop of lines 183-192: the value of numdigits when it ends (the
\* loop stops after the fourth digit).  i ends as end + numdigits.
RECURSIVE NetmaskDigits(_, _, _)
NetmaskDigits(bytes, i, numdigits) ==
    IF i < Len(bytes) /\ IsDigit(At(bytes, i))
    THEN IF numdigits + 1 > 3
         THEN numdigits + 1
         ELSE NetmaskDigits(bytes, i + 1, numdigits + 1)
    ELSE numdigits

\* The loop of lines 216-239: the final i and valid.
RECURSIVE OldNetLoop(_, _, _, _, _)
OldNetLoop(bytes, i, numdigits, dots, valid) ==
    IF i >= Len(bytes)
    THEN [i |-> i, valid |-> valid]
    ELSE LET b == At(bytes, i) IN
         IF IsDigit(b)
         THEN OldNetLoop(bytes, i + 1, numdigits + 1, dots, valid \/ dots = 3)
         ELSE IF IsPeriod(b)
         THEN IF numdigits > 3
              THEN OldNetLoop(bytes, i + 1, numdigits, dots, FALSE)
              ELSE IF numdigits = 0
              THEN [i |-> i, valid |-> valid]
              ELSE OldNetLoop(bytes, i + 1, 0, dots + 1, valid)
         ELSE [i |-> i, valid |-> valid]

\* maybe_netmask with the cursor left on the first byte of the suffix,
\* whatever suffix was taken into the span.
maybe_netmask_stay(bytes, start, end, restr) ==
    LET numdigits == NetmaskDigits(bytes, end, 0)
        i == end + numdigits
    IN  IF numdigits = 0 \/ numdigits > 3
        THEN RetSome(end, start, end - 1)
        ELSE IF i + 1 < Len(bytes) /\ IsPeriod(At(bytes, i))
                /\ IsDigit(At(bytes, i + 1))
        THEN IF restr = "IpsAndCidrs"
             THEN RetSome(end, start, end - 1)
             ELSE LET l == OldNetLoop(bytes, i + 1, 0, 1, FALSE) IN
                  IF l.valid
                  THEN RetSome(end, start, l.i)
                  ELSE RetSome(end, start, end - 1)
        ELSE RetSome(end, start, i)

\* start is self.pos at the call; end is the index just after the '/'.
maybe_netmask(bytes, start, end, restr) ==
    LET numdigits == NetmaskDigits(bytes, end, 0)
        i == end + numdigits
    IN  IF numdigits = 0 \/ numdigits > 3
        THEN RetSome(end, start, end - 1)
        ELSE IF i + 1 < Len(bytes) /\ IsPeriod(At(bytes, i))
                /\ IsDigit(At(bytes, i + 1))
        THEN IF restr = "IpsAndCidrs"
             THEN RetSome(end, start, end - 1)
             ELSE LET l == OldNetLoop(bytes, i + 1, 0, 1, FALSE) IN
                  IF l.valid
                  THEN RetSome(l.i + 1, start, l.i)
                  ELSE RetSome(l.i + 1, start, end - 1)
        ELSE RetSome(i + 1, start, i)

----------------------------------------------------------------------------
(* NetLikeScanner::try_ipv4                                                *)

\* An intermediate loop outcome: either the function has returned r
\* (ret = TRUE), or the loop has ended with these locals.
LoopRet(r) == [ret |-> TRUE, r |-> r, end |-> 0, numsize |-> 0]
LoopEnd(end, numsize) ==
    [ret |-> FALSE, r |-> RetNone(0), end |-> end, numsize |-> numsize]

\* The loop of lines 266-292 (the first three groups and their periods).
RECURSIVE Ipv4Groups(_, _, _, _)
Ipv4Groups(bytes, end, dots, numsize) ==
    IF end >= Len(bytes)
    THEN LoopEnd(end, numsize)
    ELSE LET b == At(bytes, end) IN
         IF IsDigit(b)
         THEN IF numsize + 1 > 3
              THEN LoopRet(seek_to_non_digit(bytes, end + 1))
              ELSE Ipv4Groups(bytes, end + 1, dots, numsize + 1)
         ELSE IF IsPeriod(b)
         THEN IF numsize = 0
              THEN LoopRet(RetNone(end))
              ELSE IF dots + 1 = 3
              THEN LoopEnd(end + 1, 0)
              ELSE Ipv4Groups(bytes, end + 1, dots + 1, 0)
         ELSE LoopRet(RetNone(end))

\* The loop of lines 295-304 (the fourth group).
RECURSIVE Ipv4Fourth(_, _, _)
Ipv4Fourth(bytes, end, numsize) ==
    IF end < Len(bytes) /\ IsDigit(At(bytes, end))
    THEN IF numsize + 1 > 3
         THEN LoopRet(seek_to_non_digit(bytes, end + 1))
         ELSE Ipv4Fourth(bytes, end + 1, numsize + 1)
    ELSE LoopEnd(end, numsize)

\* Lines 306-338: the endings of a four-group run that stopped at end.
Ipv4Ending(bytes, start, end, numsize, restr) ==
    IF numsize = 0
    THEN RetNone(Min(Len(bytes), end + 1))
    ELSE IF end = Len(bytes)
    THEN RetSome(end, start, end)
    ELSE IF ~InBuf(bytes, end)
    THEN RetPanic(start)
    ELSE LET b == At(bytes, end) IN
         IF IsSlash(b)
         THEN maybe_netmask(bytes, start, end + 1, restr)
         ELSE IF IsAlpha(b)
         THEN seek_to_non_letter(bytes, end + 1)
         ELSE IF IsPeriod(b) /\ end + 1 < Len(bytes)
                 /\ IsDigit(At(bytes, end + 1))
         THEN seek_to_non_digit_period(bytes, end + 1)
         ELSE RetSome(end + 1, start, end)

try_ipv4(bytes, start, restr) ==
    LET g == Ipv4Groups(bytes, start + 1, 0, 1) IN
    IF g.ret
    THEN g.r
    ELSE LET f == Ipv4Fourth(bytes, g.end, g.numsize) IN
         IF f.ret
         THEN f.r
         ELSE Ipv4Ending(bytes, start, f.end, f.numsize, restr)

----------------------------------------------------------------------------
(* NetLikeScanner::try_ipv6                                                *)

\* Lines 358-364: the seven bytes at start are "::ffff:" (f in either
\* case).  Read only under the guard start + 7 < len.
IsMappedPrefix(bytes, start) ==
    LET IsF(b) == b = 102 \/ b = 70 IN
    /\ IsColon(At(bytes, start))
    /\ IsColon(At(bytes, start + 1))
    /\ IsF(At(bytes, start + 2))
    /\ IsF(At(bytes, start + 3))
    /\ IsF(At(bytes, start + 4))
    /\ IsF(At(bytes, start + 5))
    /\ IsColon(At(bytes, start + 6))

\* Lines 392-398.
Ipv6Finish(start, end, colons) ==
    IF colons >= 2
    THEN RetSome(end + 1, start, end)
    ELSE RetNone(end + 1)

\* The loop of lines 350-390 with what follows it.
RECURSIVE Ipv6Loop(_, _, _, _)
Ipv6Loop(bytes, start, end, colons) ==
    IF end >= Len(bytes)
    THEN Ipv6Finish(start, end, colons)
    ELSE LET b == At(bytes, end) IN
         IF IsHexDigit(b)
         THEN Ipv6Loop(bytes, start, end + 1, colons)
         ELSE IF IsColon(b)
         THEN Ipv6Loop(bytes, start, end + 1, colons + 1)
         ELSE IF IsPeriod(b)
         THEN IF start + 7 < Len(bytes) /\ ~IsMappedPrefix(bytes, start)
              THEN RetSome(end + 1, start, end)
              ELSE Ipv6Loop(bytes, start, end + 1, colons)
         ELSE IF IsSlash(b)
         THEN IF colons >= 2
              THEN maybe_netmask(bytes, start, end + 1, "IpsAndCidrs")
              ELSE RetNone(end + 1)
         ELSE IF (b >= 103 /\ b <= 122) \/ (b >= 71 /\ b <= 90)
         THEN Ipv6Finish(start, end, 0)
         ELSE Ipv6Finish(start, end, colons)

try_ipv6(bytes, start) == Ipv6Loop(bytes, start, start, 0)

----------------------------------------------------------------------------
(* NetLikeScanner::try_ipv4_or_ipv6                                        *)

\* One of the three peeks (k = 1, 2, 3) at bytes[self.pos + k].
RECURSIVE Peek(_, _, _, _)
Peek(bytes, start, restr, k) ==
    IF ~InBuf(bytes, start + k)
    THEN RetPanic(start)
    ELSE LET b == At(bytes, start + k) IN
         IF IsDigit(b)
         THEN IF k = 3
              THEN try_ipv6(bytes, start)
              ELSE Peek(bytes, start, restr, k + 1)
         ELSE IF IsHexLetter(b) \/ IsColon(b)
         THEN try_ipv6(bytes, start)
         ELSE IF IsPeriod(b)
         THEN try_ipv4(bytes, start, restr)
         ELSE RetNone(start + k + 1)

try_ipv4_or_ipv6(bytes, start, restr) == Peek(bytes, start, restr, 1)

----------------------------------------------------------------------------
(* NetLikeScanner::next_impl                                               *)

\* Lines 44-53: fewer than 7 bytes are left at the call.
RECURSIVE ShortLoop(_, _)
ShortLoop(bytes, p) ==
    IF p >= Len(bytes)
    THEN RetNone(p)
    ELSE IF IsIpv46Start(At(bytes, p))
    THEN try_ipv6(bytes, p)
    ELSE ShortLoop(bytes, p + 1)

\* Lines 104-116: the last bytes of a buffer that had 7 or more left.
RECURSIVE TailLoop(_, _)
TailLoop(bytes, p) ==
    IF p >= Len(bytes)
    THEN RetNone(p)
    ELSE IF IsIpv46Start(At(bytes, p))
    THEN LET r == try_ipv6(bytes, p) IN
         IF r.kind = "some"
         THEN r
         ELSE TailLoop(bytes, r.pos + 1)
    ELSE TailLoop(bytes, p + 1)

\* Lines 65-101.  r is what a try_ function returned in the loop body:
\* a span is returned; otherwise delim_is_colon is read from
\* bytes[self.pos - 1] and the loop continues.
RECURSIVE MainLoop(_, _, _, _)
AfterTry(bytes, restr, r) ==
    IF r.kind # "none"
    THEN r
    ELSE IF ~InBuf(bytes, r.pos - 1)
    THEN RetPanic(r.pos)
    ELSE MainLoop(bytes, restr, r.pos, IsColon(At(bytes, r.pos - 1)))

MainLoop(bytes, restr, p, delim_is_colon) ==
    IF ~(p < Len(bytes) - 6)
    THEN TailLoop(bytes, p)
    ELSE LET b == At(bytes, p) IN
         IF ~delim_is_colon
         THEN IF IsDigit(b)
              THEN AfterTry(bytes, restr, try_ipv4_or_ipv6(bytes, p, restr))
              ELSE IF IsHexLetter(b)
              THEN AfterTry(bytes, restr, try_ipv6(bytes, p))
              ELSE IF IsColon(b)
              THEN IF ~InBuf(bytes, p + 1)
                   THEN RetPanic(p)
                   ELSE IF IsColon(At(bytes, p + 1))
                   THEN AfterTry(bytes, restr, try_ipv6(bytes, p))
                   ELSE MainLoop(bytes, restr, p + 1, delim_is_colon)
              ELSE MainLoop(bytes, restr, p + 1, delim_is_colon)
         ELSE IF IsDigit(b)
         THEN AfterTry(bytes, restr, try_ipv4(bytes, p, restr))
         ELSE MainLoop(bytes, restr, p + 1, FALSE)

next_impl(bytes, p, restr) ==
    IF (IF Len(bytes) > p THEN Len(bytes) - p ELSE 0) < 7
    THEN ShortLoop(bytes, p)
    ELSE MainLoop(bytes, restr, p,
                  IF p > 0 THEN IsColon(At(bytes, p - 1)) ELSE FALSE)

----------------------------------------------------------------------------
(* Net (src/src/net.rs): a network value is an address family, the address *)
(* as its groups (4 octets, or 8 groups of 16 bits) and a prefix length.   *)
(* The parsers are those of the std and ipnet crates that Net::try_from    *)
(* calls, modelled by what they accept and return.                         *)

NoNet == [ok |-> FALSE, v6 |-> FALSE, addr |-> <<>>, len |-> 0]
OkNet(v6, addr, len) == [ok |-> TRUE, v6 |-> v6, addr |-> addr, len |-> len]

RECURSIVE Pow2(_)
Pow2(n) == IF n = 0 THEN 1 ELSE 2 * Pow2(n - 1)

\* Bits of a group: 8 for an IPv4 octet, 16 for an IPv6 group.
GroupBits(v6) == IF v6 THEN 16 ELSE 8

\* How many bits of group k (from 1) lie inside a prefix of length len.
KeptBits(v6, len, k) ==
    LET w == GroupBits(v6)
        left == len - (k - 1) * w
    IN  IF left <= 0 THEN 0 ELSE IF left >= w THEN w ELSE left

\* IpNet::network: the address with the bits outside the prefix cleared.
network(n) ==
    [k \in 1..Len(n.addr) |->
        LET drop == Pow2(GroupBits(n.v6) - KeptBits(n.v6, n.len, k))
        IN  (n.addr[k] \div drop) * drop]

\* Net::has_host_bits
has_host_bits(n) == network(n) # n.addr

\* Net::as_ip
as_ip(n) == OkNet(n.v6, n.addr, IF n.v6 THEN 128 ELSE 32)

\* Net::as_network without the masking.
as_network_unmasked(n) == OkNet(n.v6, n.addr, n.len)

\* Net::as_network
as_network(n) == OkNet(n.v6, network(n), n.len)

\* The fields of s between the separator bytes sep ("1.2" by "." is
\* <<"1", "2">>; an empty field is <<>>).
RECURSIVE SplitFrom(_, _, _, _)
SplitFrom(s, sep, i, cur) ==
    IF i > Len(s)
    THEN <<cur>>
    ELSE IF s[i] = sep
    THEN <<cur>> \o SplitFrom(s, sep, i + 1, <<>>)
    ELSE SplitFrom(s, sep, i + 1, Append(cur, s[i]))

Split(s, sep) == SplitFrom(s, sep, 1, <<>>)

AllDigits(s) == \A i \in 1..Len(s) : IsDigit(s[i])

RECURSIVE NumValue(_, _)
NumValue(s, radix) ==
    LET DigitValue(b) ==
            IF IsDigit(b) THEN b - 48
            ELSE IF b >= 97 THEN b - 97 + 10
            ELSE b - 65 + 10
    IN  IF s = <<>> THEN 0
        ELSE NumValue(SubSeq(s, 1, Len(s) - 1), radix) * radix
             + DigitValue(s[Len(s)])

\* A group of an IPv6 address: 1 to 4 hex digits.
IsHexGroup(s) ==
    /\ Len(s) >= 1 /\ Len(s) <= 4
    /\ \A i \in 1..Len(s) : IsHexDigit(s[i])

\* str::parse::<Ipv4Addr> (strict = TRUE), or the address part of ipnet's
\* Ipv4Net parser (strict = FALSE): four octets between three periods.
IsIpv4Text(s, strict) ==
    LET IsNetOctet(o) ==
            /\ Len(o) >= 1 /\ Len(o) <= 3 /\ AllDigits(o)
            /\ NumValue(o, 10) <= 255
        IsStdOctet(o) == IsNetOctet(o) /\ (Len(o) > 1 => o[1] # 48)
        FourOctets(f) ==
            /\ Len(f) = 4
            /\ \A k \in 1..4 :
                    IF strict THEN IsStdOctet(f[k]) ELSE IsNetOctet(f[k])
    IN  FourOctets(Split(s, 46))

Ipv4Octets(s) == LET f == Split(s, 46) IN [k \in 1..4 |-> NumValue(f[k], 10)]

\* The groups written by a list of colon-separated fields, the last of
\* which may be an embedded IPv4 address when v4last holds.
RECURSIVE FieldGroups(_, _)
FieldGroups(f, v4last) ==
    IF f = <<>> THEN <<>>
    ELSE IF Len(f) = 1 /\ v4last
    THEN LET Ipv4AsGroups(o) == <<o[1] * 256 + o[2], o[3] * 256 + o[4]>>
         IN  Ipv4AsGroups(Ipv4Octets(f[1]))
    ELSE <<NumValue(f[1], 16)>> \o FieldGroups(Tail(f), v4last)

\* An IPv6 address text: the head fields before "::" (all hex groups), the
\* tail fields after it (the last may be an IPv4 address); without "::"
\* the head is empty, gap is FALSE and the tail must fill all 8 groups.
Ipv6FromParts(headf, tailf, gap, strict) ==
    LET FieldsOk(f) ==
            /\ \A k \in 1..Len(f) - 1 : IsHexGroup(f[k])
            /\ f # <<>> =>
                (IsHexGroup(f[Len(f)]) \/ IsIpv4Text(f[Len(f)], strict))
        EndsInIpv4(f) ==
            f # <<>> /\ ~IsHexGroup(f[Len(f)]) /\ IsIpv4Text(f[Len(f)], strict)
        Zeros(n) == [k \in 1..n |-> 0]
        tailv4 == EndsInIpv4(tailf)
        tailg == IF tailf = <<>> THEN <<>> ELSE FieldGroups(tailf, tailv4)
        used == Len(headf) + Len(tailg)
    IN  IF /\ \A k \in 1..Len(headf) : IsHexGroup(headf[k])
           /\ FieldsOk(tailf)
           /\ IF gap THEN used <= 7 ELSE used = 8
        THEN OkNet(TRUE,
                   FieldGroups(headf, FALSE) \o Zeros(8 - used) \o tailg,
                   128)
        ELSE NoNet

\* Where the "::" of the colon-separated fields f is: the fields before
\* it and after it.  Without empty fields there is no "::"; the empty
\* fields of a well-formed text are those "::" leaves at the start, at the
\* end or in the middle.
Ipv6Shape(f) ==
    LET n == Len(f)
        e == {k \in 1..Len(f) : f[k] = <<>>}
        mid == IF Cardinality(e) = 1 THEN CHOOSE x \in e : TRUE ELSE 0
    IN  IF n < 3 THEN [ok |-> FALSE, gap |-> FALSE, head |-> <<>>, tail |-> <<>>]
        ELSE IF e = {}
        THEN [ok |-> TRUE, gap |-> FALSE, head |-> <<>>, tail |-> f]
        ELSE IF e = {1, 2, 3} /\ n = 3
        THEN [ok |-> TRUE, gap |-> TRUE, head |-> <<>>, tail |-> <<>>]
        ELSE IF e = {1, 2}
        THEN [ok |-> TRUE, gap |-> TRUE, head |-> <<>>, tail |-> SubSeq(f, 3, n)]
        ELSE IF e = {n - 1, n}
        THEN [ok |-> TRUE, gap |-> TRUE, head |-> SubSeq(f, 1, n - 2),
              tail |-> <<>>]
        ELSE IF mid > 1 /\ mid < n
        THEN [ok |-> TRUE, gap |-> TRUE, head |-> SubSeq(f, 1, mid - 1),
              tail |-> SubSeq(f, mid + 1, n)]
        ELSE [ok |-> FALSE, gap |-> FALSE, head |-> <<>>, tail |-> <<>>]

\* str::parse::<Ipv6Addr>, and the address part of ipnet's Ipv6Net parser.
ParseIpv6(s, strict) ==
    LET sh == Ipv6Shape(Split(s, 58)) IN
    IF sh.ok THEN Ipv6FromParts(sh.head, sh.tail, sh.gap, strict) ELSE NoNet

\* str::parse::<IpAddr>, as a host network (IpNet::from(addr)).
ParseIpAddr(s) ==
    IF IsIpv4Text(s, TRUE)
    THEN OkNet(FALSE, Ipv4Octets(s), 32)
    ELSE ParseIpv6(s, TRUE)

\* str::parse::<IpNet> of "ip/digits": a prefix length of 1 or 2 digits up
\* to 32 after an IPv4 address, of 1 to 3 digits up to 128 after IPv6.
ParseIpNet(ip_part, mask_part) ==
    LET plen == NumValue(mask_part, 10)
        a6 == ParseIpv6(ip_part, FALSE)
    IN  IF mask_part = <<>> \/ Len(mask_part) > 3 THEN NoNet
        ELSE IF IsIpv4Text(ip_part, FALSE)
        THEN IF Len(mask_part) <= 2 /\ plen <= 32
             THEN OkNet(FALSE, Ipv4Octets(ip_part), plen)
             ELSE NoNet
        ELSE IF a6.ok /\ plen <= 128
        THEN OkNet(TRUE, a6.addr, plen)
        ELSE NoNet

\* u8::leading_ones of one octet.
RECURSIVE OctetLeadingOnes(_, _)
OctetLeadingOnes(o, bit) ==
    IF bit = 0 \/ o < bit THEN 0
    ELSE 1 + OctetLeadingOnes(o - bit, bit \div 2)

\* u32::leading_ones of the mask, octet by octet.
RECURSIVE LeadingOnes(_, _)
LeadingOnes(m, k) ==
    IF k > Len(m) THEN 0
    ELSE IF m[k] = 255 THEN 8 + LeadingOnes(m, k + 1)
    ELSE OctetLeadingOnes(m[k], 128)

\* with_netmask reading every mask as the mask of a single host.
with_netmask_host(ip, mask) == OkNet(FALSE, ip, 32)

\* IpNet::with_netmask: the mask must be its leading ones and nothing else.
with_netmask_unchecked(ip, mask) == OkNet(FALSE, ip, LeadingOnes(mask, 1))

with_netmask(ip, mask) ==
    LET PrefixMask(len) ==
            [k \in 1..4 |-> 256 - Pow2(8 - KeptBits(FALSE, len, k))]
        WithLen(len) ==
            IF PrefixMask(len) = mask THEN OkNet(FALSE, ip, len) ELSE NoNet
    IN  WithLen(LeadingOnes(mask, 1))

\* The index of the first sep in s, or 0.
FirstIndex(s, sep) ==
    IF \E i \in 1..Len(s) : s[i] = sep
    THEN CHOOSE i \in 1..Len(s) :
            s[i] = sep /\ \A j \in 1..(i - 1) : s[j] # sep
    ELSE 0

\* impl TryFrom<&str> for Net (NoNet is Err(NotAnIp)).
NetTryFrom(s) ==
    LET slash == FirstIndex(s, 47) IN
    IF slash # 0
    THEN LET ip_part == SubSeq(s, 1, slash - 1)
             mask_part == SubSeq(s, slash + 1, Len(s))
         IN  IF AllDigits(mask_part)
             THEN ParseIpNet(ip_part, mask_part)
             ELSE IF IsIpv4Text(ip_part, TRUE) /\ IsIpv4Text(mask_part, TRUE)
             THEN with_netmask(Ipv4Octets(ip_part), Ipv4Octets(mask_part))
             ELSE NoNet
    ELSE ParseIpAddr(s)

----------------------------------------------------------------------------
(* The prefilters of src/src/scanner.rs.                                   *)

\* line[pos] is a '.' between two digits.
DigitDotDigit(line, p) ==
    /\ IsPeriod(At(line, p))
    /\ p < Len(line) - 1
    /\ IsDigit(At(line, p + 1))
    /\ p > 0
    /\ IsDigit(At(line, p - 1))

\* line[pos] is a ':' followed by a hex digit or another ':'.
ColonHex(line, p) ==
    /\ IsColon(At(line, p))
    /\ p < Len(line) - 1
    /\ (IsHexDigit(At(line, p + 1)) \/ IsColon(At(line, p + 1)))

prefilter_could_be_ip(line) ==
    /\ line # <<>>
    /\ \E p \in 0..(Len(line) - 1) : DigitDotDigit(line, p) \/ ColonHex(line, p)

prefilter_could_be_ip4(line) ==
    /\ line # <<>>
    /\ \E p \in 0..(Len(line) - 1) : DigitDotDigit(line, p)

prefilter_could_be_ip6(line) ==
    /\ line # <<>>
    /\ \E p \in 0..(Len(line) - 1) : ColonHex(line, p)

----------------------------------------------------------------------------
(* NetCandidateScanner::find_all                                           *)

\* AcceptSet::default() and the other values of AcceptSet.
AcceptSet(ip, net, oldnet, iface) ==
    [ip |-> ip, net |-> net, oldnet |-> oldnet, iface |-> iface]

\* The spans `for (start, end) in netlikescanner` iterates over: next() is
\* called until it answers None; a panic inside it ends the iteration.
RECURSIVE ScanFrom(_, _, _)

\* The iteration after next() answered r.
ScanStep(bytes, r, restr) ==
    IF r.kind = "panic" THEN [panic |-> TRUE, spans |-> <<>>]
    ELSE IF r.kind = "none" THEN [panic |-> FALSE, spans |-> <<>>]
    ELSE LET ScanCons(rest) ==
                [panic |-> rest.panic,
                 spans |-> <<[start |-> r.start, end |-> r.end]>>
                           \o rest.spans]
         IN  ScanCons(ScanFrom(bytes, r.pos, restr))

ScanFrom(bytes, p, restr) == ScanStep(bytes, next_impl(bytes, p, restr), restr)

\* &buf[start..end]
Slice(bytes, start, end) == SubSeq(bytes, start + 1, end)

\* What the body of the for loop (lines 87-152) does with one span:
\* "skip" (a continue), "complain" (the warning, then continue) or "push".
Skip == [act |-> "skip", net |-> NoNet]

\* Lines 137-152.
FilterFamily(n, inc4, inc6) ==
    IF ~inc6 /\ n.v6 THEN Skip
    ELSE IF ~inc4 /\ ~n.v6 THEN Skip
    ELSE [act |-> "push", net |-> n]

\* Lines 117-152: the interface mode applied to a parsed net n, then the
\* family.
TranslateKept(n, acc, mode, inc4, inc6) ==
    IF ~n.ok THEN Skip
    ELSE IF has_host_bits(n) /\ ~acc.iface THEN Skip
    ELSE IF has_host_bits(n) /\ mode = "ComplainAndSkip"
    THEN [act |-> "complain", net |-> NoNet]
    ELSE FilterFamily(n, inc4, inc6)

Translate(n, acc, mode, inc4, inc6) ==
    LET iface == has_host_bits(n)
    IN  IF ~n.ok THEN Skip
        ELSE IF iface /\ ~acc.iface THEN Skip
        ELSE IF iface /\ mode = "ComplainAndSkip" THEN [act |-> "complain", net |-> NoNet]
        ELSE IF ~iface THEN FilterFamily(n, inc4, inc6)
        ELSE IF mode = "TreatAsIp" THEN FilterFamily(as_ip(n), inc4, inc6)
        ELSE FilterFamily(as_network(n), inc4, inc6)

\* Lines 113-116: the parse, whose failure skips the span.
ParseAndTranslate(slice, acc, mode, inc4, inc6) ==
    Translate(NetTryFrom(slice), acc, mode, inc4, inc6)

\* Lines 87-116 without the cut of line 95: the whole slice is parsed.
HandleSpanUncut(slice, acc, mode, inc4, inc6) ==
    IF FirstIndex(slice, 47) = 0 /\ ~acc.ip
    THEN Skip
    ELSE ParseAndTranslate(slice, acc, mode, inc4, inc6)

\* Lines 87-116: the slice that is parsed, unless the span is skipped.
HandleSpan(slice, acc, mode, inc4, inc6) ==
    LET slash_pos == FirstIndex(slice, 47)
        nonet == ~(acc.net \/ acc.oldnet \/ acc.iface)
        skipped ==
            IF slash_pos # 0
            THEN /\ ~nonet
                 /\ acc.oldnet /\ ~acc.net
                 /\ FirstIndex(SubSeq(slice, slash_pos, Len(slice)), 46) = 0
            ELSE ~acc.ip
        parsed ==
            IF slash_pos # 0 /\ nonet
            THEN SubSeq(slice, 1, slash_pos - 1)
            ELSE slice
    IN  IF skipped
        THEN Skip
        ELSE ParseAndTranslate(parsed, acc, mode, inc4, inc6)

\* Lines 149-152: what the outcome h of the span sp adds to the candidates
\* and the warnings of the later spans.
CollectStep(sp, h, rest) ==
    [candidates |->
        (IF h.act = "push"
         THEN <<[range |-> <<sp.start, sp.end>>, net |-> h.net]>>
         ELSE <<>>) \o rest.candidates,
     complaints |-> (IF h.act = "complain" THEN 1 ELSE 0) + rest.complaints]

\* The candidates pushed for a list of spans, and the warnings printed.
RECURSIVE Collect(_, _, _, _, _, _)
Collect(bytes, spans, acc, mode, inc4, inc6) ==
    IF spans = <<>>
    THEN [candidates |-> <<>>, complaints |-> 0]
    ELSE CollectStep(Head(spans),
                     HandleSpan(Slice(bytes, Head(spans).start,
                                      Head(spans).end),
                                acc, mode, inc4, inc6),
                     Collect(bytes, Tail(spans), acc, mode, inc4, inc6))

\* What a call of find_all comes to: kind is "ok" (it returned
\* candidates) or "panic".
Found(cands, complaints) ==
    [kind |-> "ok", candidates |-> cands, complaints |-> complaints]
NotCalled == [kind |-> "nocall", candidates |-> <<>>, complaints |-> 0]

\* Lines 86-155: the validation of the spans of the scan sc, which a panic
\* of the scanner never reaches.
Validate(bytes, sc, acc, mode, inc4, inc6) ==
    IF sc.panic
    THEN [kind |-> "panic", candidates |-> <<>>, complaints |-> 0]
    ELSE LET FoundOf(c) == Found(c.candidates, c.complaints)
         IN  FoundOf(Collect(bytes, sc.spans, acc, mode, inc4, inc6))

\* Lines 78-155: the scan and the validation of its spans.
ScanAndValidate(bytes, acc, mode, inc4, inc6) ==
    Validate(bytes,
             ScanFrom(bytes, 0,
                      IF acc.oldnet THEN "AlsoOldNets" ELSE "IpsAndCidrs"),
             acc, mode, inc4, inc6)

\* Lines 68-73: the prefilter variant of the family configuration.
Prefilter(bytes, inc4, inc6) ==
    IF inc4 /\ inc6 THEN prefilter_could_be_ip(bytes)
    ELSE IF inc4 THEN prefilter_could_be_ip4(bytes)
    ELSE prefilter_could_be_ip6(bytes)

find_all_impl(bytes, acc, mode, inc4, inc6) ==
    IF ~inc4 /\ ~inc6
    THEN [kind |-> "panic", candidates |-> <<>>, complaints |-> 0]
    ELSE IF ~Prefilter(bytes, inc4, inc6)
    THEN Found(<<>>, 0)
    ELSE ScanAndValidate(bytes, acc, mode, inc4, inc6)

\* Lines 113-152 with the push of line 149 left out.
scan_one_unpushed(sc, acc, mode, inc4, inc6) ==
    LET After(r) ==
            IF r.kind = "panic" THEN [sc EXCEPT !.st = "panic"]
            ELSE IF r.kind = "none" THEN [sc EXCEPT !.st = "done"]
            ELSE [sc EXCEPT !.pos = r.pos]
    IN  IF sc.st = "new"
        THEN [sc EXCEPT !.st = IF Prefilter(sc.buf, inc4, inc6)
                               THEN "scanning" ELSE "done"]
        ELSE After(next_impl(sc.buf, sc.pos,
                             IF acc.oldnet THEN "AlsoOldNets"
                             ELSE "IpsAndCidrs"))

\* One step of a call of find_all: lines 66-76, the prefilter, or one turn
\* of the loop of lines 86-152 over its own NetLikeScanner.
scan_one(sc, acc, mode, inc4, inc6) ==
    LET Pushed(r, h) ==
            [sc EXCEPT
                !.pos = r.pos,
                !.candidates =
                    IF h.act = "push"
                    THEN Append(sc.candidates,
                                [range |-> <<r.start, r.end>>, net |-> h.net])
                    ELSE sc.candidates,
                !.complaints =
                    IF h.act = "complain" THEN sc.complaints + 1
                    ELSE sc.complaints]
        After(r) ==
            IF r.kind = "panic" THEN [sc EXCEPT !.st = "panic"]
            ELSE IF r.kind = "none" THEN [sc EXCEPT !.st = "done"]
            ELSE Pushed(r, HandleSpan(Slice(sc.buf, r.start, r.end),
                                      acc, mode, inc4, inc6))
    IN  IF sc.st = "new"
        THEN [sc EXCEPT !.st = IF Prefilter(sc.buf, inc4, inc6)
                               THEN "scanning" ELSE "done"]
        ELSE After(next_impl(sc.buf, sc.pos,
                             IF acc.oldnet THEN "AlsoOldNets"
                             ELSE "IpsAndCidrs"))

----------------------------------------------------------------------------
(* The buffers the scanner is run on: concatenations of fragments.         *)

RECURSIVE Flatten(_)
Flatten(ts) == IF ts = <<>> THEN <<>> ELSE Head(ts) \o Flatten(Tail(ts))

----------------------------------------------------------------------------
(* The lines find_all is run on: words separated by single spaces.         *)

WordNet == <<49, 46, 49, 46, 48, 46, 48>>                     \* "1.1.0.0"
WordHost == <<49, 46, 49, 46, 49, 46, 49>>                    \* "1.1.1.1"
WordBadOctet == <<50, 53, 54, 46, 49, 46, 49, 46, 49>>        \* "256.1.1.1"
WordMask == <<50, 53, 53, 46, 50, 53, 53, 46, 48, 46, 48>>    \* "255.255.0.0"
WordGapMask == <<50, 53, 53, 46, 48, 46, 50, 53, 53, 46, 48>> \* "255.0.255.0"
WordV6 == <<58, 58, 49>>                                      \* "::1"
WordV6Net == <<49, 58, 58>>                                   \* "1::"
WordDigits == <<49, 49, 49, 49, 49, 49, 49, 49>>              \* "11111111"
WordLetter == <<122>>                                         \* "z"
Suffix16 == <<47, 49, 54>>                                    \* "/16"

Words ==
    {WordNet, WordHost, WordBadOctet,
     WordNet \o Suffix16, WordHost \o Suffix16, WordV6Net \o Suffix16,
     WordNet \o <<47>> \o WordMask, WordHost \o <<47>> \o WordMask,
     WordNet \o <<47>> \o WordGapMask,
     WordV6, WordV6 \o Suffix16, WordDigits, WordLetter}

\* The words joined by single spaces.
RECURSIVE Join(_)
Join(ws) ==
    IF ws = <<>> THEN <<>>
    ELSE IF Len(ws) = 1 THEN ws[1]
    ELSE ws[1] \o <<32>> \o Join(Tail(ws))

\* The four-group tokens A and M of a buffer "A/M"; the last mask is
\* "255.255.255.255".
OldNetAddresses == {WordNet, WordHost, WordBadOctet}
OldNetMasks ==
    {WordMask, WordGapMask, WordHost,
     <<50, 53, 53, 46, 50, 53, 53, 46, 50, 53, 53, 46, 50, 53, 53>>}

\* The line of the scanner's own test: "plain 1.2.3.4 end".
LinePlain ==
    <<112, 108, 97, 105, 110, 32, 49, 46, 50, 46, 51, 46, 52, 32,
      101, 110, 100>>

\* The acceptance policy of the command line when no -a is given.
AcceptCli == AcceptSet(TRUE, TRUE, FALSE, TRUE)

----------------------------------------------------------------------------
(* src/src/needle.rs and src/src/matching.rs: needles and match modes.     *)

\* What the conversion of a needle argument comes to: kind is "ok" (a
\* Needle of src and net), "NotAnIp" or "HostBitsSet" (the errors),
\* "token" before the conversion, and "none" where no needle is given.
Needle(kind, s, n) == [kind |-> kind, src |-> s, net |-> n]
NoNeedle == Needle("none", <<>>, NoNet)

\* Needle::try_from without the test of the host bits.
NeedleOfUnchecked(s, n) ==
    IF ~n.ok THEN Needle("NotAnIp", s, NoNet) ELSE Needle("ok", s, n)

\* Needle::try_from, given the result n of Net::try_from(s).
NeedleOf(s, n) ==
    IF ~n.ok THEN Needle("NotAnIp", s, NoNet)
    ELSE IF has_host_bits(n) THEN Needle("HostBitsSet", s, NoNet)
    ELSE Needle("ok", s, n)

\* IpNet::broadcast: the address with the bits outside the prefix set.
broadcast(n) ==
    [k \in 1..Len(n.addr) |->
        LET drop == Pow2(GroupBits(n.v6) - KeptBits(n.v6, n.len, k))
        IN  (n.addr[k] \div drop) * drop + (drop - 1)]

\* The order of addresses (Ord for Ipv4Addr and Ipv6Addr): a <= b.
AddrLe(a, b) ==
    \/ a = b
    \/ \E k \in 1..Len(a) :
        /\ a[k] < b[k]
        /\ \A j \in 1..(k - 1) : a[j] = b[j]

\* IpNet::contains without the upper end of the range.
contains_lower(n, v6, addr) == n.v6 = v6 /\ AddrLe(network(n), addr)

\* IpNet::contains(&IpAddr): the address addr, of family v6, is in n.
contains(n, v6, addr) ==
    /\ n.v6 = v6
    /\ AddrLe(network(n), addr)
    /\ AddrLe(addr, broadcast(n))

\* What a call of MatchMode::matches comes to: a boolean, or the panic of
\* a failed assert!.
MatchBool(mode, b) == [mode |-> mode, kind |-> "bool", value |-> b]
MatchPanic(mode) == [mode |-> mode, kind |-> "panic", value |-> FALSE]
NotMatched == [mode |-> "none", kind |-> "nocall", value |-> FALSE]

\* The arm of MatchMode::Contains with the network address alone.
MatchContainsNetwork(h, n) ==
    IF has_host_bits(n)
    THEN MatchPanic("Contains")
    ELSE MatchBool("Contains",
                   contains(h, n.v6, network(n)))

\* The arm of MatchMode::Contains.
MatchContains(h, n) ==
    IF has_host_bits(n)
    THEN MatchPanic("Contains")
    ELSE MatchBool("Contains",
                   /\ contains(h, n.v6, network(n))
                   /\ contains(h, n.v6, broadcast(n)))

\* The arm of MatchMode::Within with the roles of MatchMode::Contains.
MatchWithinAsContains(h, n) ==
    IF has_host_bits(n)
    THEN MatchPanic("Within")
    ELSE MatchBool("Within",
                   /\ contains(h, n.v6, network(n))
                   /\ contains(h, n.v6, broadcast(n)))

\* The arm of MatchMode::Within.
MatchWithin(h, n) ==
    IF has_host_bits(h)
    THEN MatchPanic("Within")
    ELSE MatchBool("Within",
                   /\ contains(n, h.v6, network(h))
                   /\ contains(n, h.v6, broadcast(h)))

\* MatchMode::overlaps with its first test alone.
overlaps_one_way(a, b) == a.v6 = b.v6 /\ contains(a, b.v6, network(b))

\* MatchMode::overlaps
overlaps(a, b) ==
    IF a.v6 = b.v6
    THEN contains(a, b.v6, network(b)) \/ contains(b, a.v6, network(a))
    ELSE FALSE

\* MatchMode::matches with an Equals that compares the addresses alone.
matches_same_base(mode, h, n) ==
    CASE mode = "Equals" -> MatchBool(mode, n.v6 = h.v6 /\ n.addr = h.addr)
      [] mode = "Contains" -> MatchContains(h, n)
      [] mode = "Within" -> MatchWithin(h, n)
      [] mode = "Overlaps" -> MatchBool(mode, overlaps(h, n))

\* MatchMode::matches
matches(mode, h, n) ==
    CASE mode = "Equals" -> MatchBool(mode, n = h)
      [] mode = "Contains" -> MatchContains(h, n)
      [] mode = "Within" -> MatchWithin(h, n)
      [] mode = "Overlaps" -> MatchBool(mode, overlaps(h, n))

\* The networks the match modes are run on: seven IPv4 addresses (among
\* them 10.0.0.0, 10.0.0.128 and 10.0.1.0) and five IPv6 addresses (among
\* them ::1, 2001:db8:: and ::ffff:10.0.0.0), each with seven prefix
\* lengths.
Nets ==
    {OkNet(FALSE, a[1], a[2]) :
        a \in {<<10, 0, 0, 0>>, <<10, 0, 0, 1>>, <<10, 0, 0, 128>>,
               <<10, 0, 1, 0>>, <<192, 168, 3, 3>>, <<0, 0, 0, 0>>,
               <<255, 255, 255, 255>>}
              \X {0, 8, 23, 24, 25, 31, 32}}
    \cup
    {OkNet(TRUE, a[1], a[2]) :
        a \in {<<0, 0, 0, 0, 0, 0, 0, 0>>, <<0, 0, 0, 0, 0, 0, 0, 1>>,
               <<8193, 3512, 0, 0, 0, 0, 0, 0>>,
               <<8193, 3512, 1, 0, 0, 0, 0, 0>>,
               <<0, 0, 0, 0, 0, 65535, 2560, 0>>}
              \X {0, 32, 47, 48, 104, 127, 128}}

\* A Net under inspection: the text src it is parsed from, its current
\* value x, the last call op made on it, the value from it was made on and
\* the last answer hb of has_host_bits.
NetVal(src, x, op, from, hb) ==
    [src |-> src, x |-> x, op |-> op, from |-> from, hb |-> hb]
NoNetVal == NetVal(<<>>, NoNet, "none", NoNet, FALSE)

----------------------------------------------------------------------------
(* src/src/core.rs and src/src/main.rs: the files and the exit status.     *)

\* No run is under way.
NoRun ==
    [files |-> <<>>, oldnet |-> FALSE, before |-> 0, style |-> "none",
     next |-> 1, any_match |-> FALSE, exit |-> "none"]

\* Lines 105-112 for one line, the needle being 1.1.1.1 and the scanner
\* that of the default policy for IPv4 needles: "panic", "match" or
\* "nomatch".
LineResult(line) ==
    LET LineOf(f) ==
            IF f.kind = "panic" THEN "panic"
            ELSE IF \E k \in 1..Len(f.candidates) :
                        matches("Contains", f.candidates[k].net,
                                OkNet(FALSE, <<1, 1, 1, 1>>, 32)).value
            THEN "match"
            ELSE "nomatch"
    IN  LineOf(find_all_impl(line, AcceptCli, "TreatAsIp", TRUE, FALSE))

\* Lines 92-160: the loop over the lines, which a panic ends and which a
\* matching line ends when the style breaks there.
RECURSIVE ScanLines(_, _)
ScanLines(lines, style) ==
    LET LinesStep(r, breaks, rest) ==
            IF r = "panic" THEN "panic"
            ELSE IF r = "match" /\ breaks THEN "match"
            ELSE IF rest = <<>> THEN r
            ELSE IF r = "match" /\ ScanLines(rest, style) = "nomatch"
            THEN "match"
            ELSE ScanLines(rest, style)
    IN  IF lines = <<>> THEN "nomatch"
        ELSE LinesStep(LineResult(Head(lines)),
                       style \in {"ShowNothing", "ShowFilesOnly"},
                       Tail(lines))

\* Lines 114, 162-178: the run after a file that came to r.
AfterFile(rn, r) ==
    IF r = "panic"
    THEN [rn EXCEPT !.exit = "panic"]
    ELSE IF (rn.any_match \/ r = "match") /\ rn.style = "ShowNothing"
    THEN [rn EXCEPT !.any_match = TRUE, !.next = Len(rn.files) + 1]
    ELSE [rn EXCEPT !.any_match = rn.any_match \/ r = "match",
                    !.next = rn.next + 1]

\* Lines 105-112 with a push for every needle that matches, the break of
\* line 109 left out.
LineMatchesAll(line, needles, mode) ==
    LET Hits(c) ==
            {k \in 1..Len(needles) : matches(mode, c.net, needles[k]).value}
        Copies(c) == [k \in 1..Cardinality(Hits(c)) |-> c]
        Cat(cs) ==
            LET Upto[i \in 0..Len(cs)] ==
                    IF i = 0 THEN <<>> ELSE Upto[i - 1] \o Copies(cs[i])
            IN  Upto[Len(cs)]
        Of(f) ==
            IF f.kind = "panic" THEN [kind |-> "panic", pushed |-> <<>>]
            ELSE [kind |-> "ok", pushed |-> Cat(f.candidates)]
    IN  Of(find_all_impl(line, AcceptCli, "TreatAsIp",
                         \E k \in 1..Len(needles) : ~needles[k].v6,
                         \E k \in 1..Len(needles) : needles[k].v6))

\* Lines 56-66 and 105-112: the candidates of one line that are pushed on
\* matches, each at the first needle it matches, or the panic of find_all
\* or of a match.
LineMatches(line, needles, mode) ==
    LET Decisive(c) ==
            {k \in 1..Len(needles) :
                \/ matches(mode, c.net, needles[k]).kind = "panic"
                \/ matches(mode, c.net, needles[k]).value}
        First(c) == CHOOSE k \in Decisive(c) : \A j \in Decisive(c) : k <= j
        Outcome(c) ==
            IF Decisive(c) = {} THEN "skip"
            ELSE IF matches(mode, c.net, needles[First(c)]).kind = "panic"
            THEN "panic"
            ELSE "push"
        Pushed(c) == Outcome(c) = "push"
        Of(f) ==
            IF \/ f.kind = "panic"
               \/ \E k \in 1..Len(f.candidates) :
                     Outcome(f.candidates[k]) = "panic"
            THEN [kind |-> "panic", pushed |-> <<>>]
            ELSE [kind |-> "ok", pushed |-> SelectSeq(f.candidates, Pushed)]
    IN  Of(find_all_impl(line, AcceptCli, "TreatAsIp",
                         \E k \in 1..Len(needles) : ~needles[k].v6,
                         \E k \in 1..Len(needles) : needles[k].v6))

----------------------------------------------------------------------------
(* src/src/context.rs: the lines kept before and allowed after a match.    *)

\* ContextBuffer::from_show_context.  Beside the fields of the struct the
\* record holds the last call (op, arg, value), the fields as they were
\* before it (pre), the line numbers pushed since the last clear, whether
\* request_after was called, and the after-lines granted since.
from_show_context(before, after) ==
    [is_used |-> before > 0 \/ after > 0,
     before |-> before, after |-> after, queue |-> <<>>,
     after_remaining |-> 0, last_printed_lineno |-> 0,
     op |-> "new", arg |-> 0, value |-> FALSE, pre |-> <<>>,
     pushed |-> <<>>, requested |-> FALSE, granted |-> 0]

\* The buffer c with the call op(arg) and its answer recorded.
CtxCalled(c, op, arg, value) ==
    [c EXCEPT !.op = op, !.arg = arg, !.value = value,
              !.pre = <<c.queue, c.after_remaining, c.last_printed_lineno>>]

----------------------------------------------------------------------------
(* src/src/files.rs: the haystacks and the walk through the directories.   *)

\* fs::metadata (follow) and fs::symlink_metadata on the directory entry n
\* of the tree fs: the kind found and the inode it belongs to, or an error
\* (a chain of symlinks that never ends).  A path is written as the
\* directory entry it names.
Stat(fs, n, follow) ==
    LET RECURSIVE Chase(_, _)
        Chase(m, hops) ==
            IF fs[m].kind # "symlink"
            THEN [ok |-> TRUE, kind |-> fs[m].kind, ino |-> m]
            ELSE IF hops = 0 THEN [ok |-> FALSE, kind |-> "error", ino |-> 0]
            ELSE Chase(fs[m].target, hops - 1)
    IN  IF follow THEN Chase(n, Len(fs))
        ELSE [ok |-> TRUE, kind |-> fs[n].kind, ino |-> n]

\* What a directory entry can be: a file, a directory with the given
\* entries, or a symlink to one of the four entries of the tree.
FsNodes(entries) ==
    {[kind |-> "file", entries |-> <<>>, target |-> 0],
     [kind |-> "dir", entries |-> entries, target |-> 0]}
    \cup {[kind |-> "symlink", entries |-> <<>>, target |-> t] : t \in 1..4}

\* next_path without the dirs_seen test of line 157.
next_path_unseen(f, e) ==
    LET Logged(st, out, pushed) ==
            [f EXCEPT
                !.log = Append(f.log,
                    [node |-> e.node, follow |-> e.follow,
                     dir |-> IF st.ok /\ st.kind = "dir" THEN st.ino ELSE 0,
                     out |-> out, pushed |-> Len(pushed)]),
                !.stack = f.stack \o pushed,
                !.dirs_seen =
                    IF st.ok /\ st.kind = "dir"
                    THEN f.dirs_seen \cup {st.ino} ELSE f.dirs_seen]
        Children(d) ==
            [k \in 1..Len(f.fs[d].entries) |->
                [follow |-> f.recurse = "FollowDirectorySymlinks",
                 node |-> f.fs[d].entries[k]]]
        AfterStat(st) ==
            IF ~st.ok THEN Logged(st, "error", <<>>)
            ELSE IF st.kind = "symlink" THEN Logged(st, "none", <<>>)
            ELSE IF st.kind = "dir"
            THEN IF f.recurse = "No" THEN Logged(st, "Is a directory", <<>>)
                 ELSE Logged(st, "none", Children(st.ino))
            ELSE Logged(st, "file", <<>>)
    IN  AfterStat(Stat(f.fs, e.node, e.follow))

\* FileSourceIter::next_path(path, follow) with next_path_symlink,
\* next_path_dir and next_path_file, on the iterator f whose entry e was
\* popped.
next_path(f, e) ==
    LET Logged(st, out, pushed) ==
            [f EXCEPT
                !.log = Append(f.log,
                    [node |-> e.node, follow |-> e.follow,
                     dir |-> IF st.ok /\ st.kind = "dir" THEN st.ino ELSE 0,
                     out |-> out, pushed |-> Len(pushed)]),
                !.stack = f.stack \o pushed,
                !.dirs_seen =
                    IF st.ok /\ st.kind = "dir"
                    THEN f.dirs_seen \cup {st.ino} ELSE f.dirs_seen]
        Children(d) ==
            [k \in 1..Len(f.fs[d].entries) |->
                [follow |-> f.recurse = "FollowDirectorySymlinks",
                 node |-> f.fs[d].entries[k]]]
        AfterStat(st) ==
            IF ~st.ok THEN Logged(st, "error", <<>>)
            ELSE IF st.kind = "symlink" THEN Logged(st, "none", <<>>)
            ELSE IF st.kind = "dir"
            THEN IF st.ino \in f.dirs_seen THEN Logged(st, "none", <<>>)
                 ELSE IF f.recurse = "No"
                 THEN Logged(st, "Is a directory", <<>>)
                 ELSE Logged(st, "none", Children(st.ino))
            ELSE Logged(st, "file", <<>>)
    IN  AfterStat(Stat(f.fs, e.node, e.follow))

----------------------------------------------------------------------------
(* The state machines.                                                     *)

\* NetLikeScanner::new(buf)
ScannerNew ==
    /\ pos = 0
    /\ restrict = "IpsAndCidrs"
    /\ results = <<>>

\* NetCandidateScanner::new()
NcsNew ==
    /\ include_ipv4 = TRUE
    /\ include_ipv6 = TRUE
    /\ accept = AcceptSet(FALSE, FALSE, FALSE, FALSE)
    /\ interface_mode = "TreatAsIp"
    /\ usable = TRUE
    /\ found = NotCalled

\* NetLikeScanner::with_oldnet, called on the new scanner as find_all does.
with_oldnet ==
    /\ results = <<>>
    /\ restrict = "IpsAndCidrs"
    /\ restrict' = "AlsoOldNets"
    /\ UNCHANGED <<buf, pos, results>>
    /\ UNCHANGED ncs_vars
    /\ UNCHANGED match_vars

\* How many of the calls so far returned None.
NoneCount == Cardinality({i \in 1..Len(results) : results[i].kind = "none"})

\* Iterator::next, i.e. one call of next_impl.  A panic ends the scan.
next ==
    /\ ~(results # <<>> /\ results[Len(results)].kind = "panic")
    /\ NoneCount < MaxNone
    /\ LET r == next_impl(buf, pos, restrict) IN
        /\ pos' = r.pos
        /\ results' = Append(results, [pos0 |-> pos, pos1 |-> r.pos,
                                       kind |-> r.kind,
                                       start |-> r.start, end |-> r.end])
    /\ UNCHANGED <<buf, restrict>>
    /\ UNCHANGED ncs_vars
    /\ UNCHANGED match_vars

\* accept.ip || accept.net || accept.oldnet || accept.iface
SomeFlag(a) == a.ip \/ a.net \/ a.oldnet \/ a.iface

\* NetCandidateScanner::set_accept: the assert! fails on an empty set.
set_accept ==
    /\ usable
    /\ \E a \in [ip : BOOLEAN, net : BOOLEAN, oldnet : BOOLEAN,
                iface : BOOLEAN] :
        IF SomeFlag(a)
        THEN /\ accept' = a
             /\ found' = NotCalled
             /\ UNCHANGED usable
        ELSE /\ usable' = FALSE
             /\ UNCHANGED <<accept, found>>
    /\ UNCHANGED <<include_ipv4, include_ipv6, interface_mode>>
    /\ UNCHANGED <<buf, pos, restrict, results>>
    /\ UNCHANGED match_vars

\* NetCandidateScanner::set_interface_mode
set_interface_mode ==
    /\ usable
    /\ \E m \in {"TreatAsIp", "TreatAsNetwork", "ComplainAndSkip"} :
        /\ interface_mode' = m
        /\ found' = NotCalled
    /\ UNCHANGED <<include_ipv4, include_ipv6, accept, usable>>
    /\ UNCHANGED <<buf, pos, restrict, results>>
    /\ UNCHANGED match_vars

\* NetCandidateScanner::ignore_ipv4
ignore_ipv4 ==
    /\ usable
    /\ \E value \in BOOLEAN :
        IF value /\ ~include_ipv6
        THEN /\ usable' = FALSE
             /\ UNCHANGED <<include_ipv4, found>>
        ELSE /\ include_ipv4' = ~value
             /\ found' = NotCalled
             /\ UNCHANGED usable
    /\ UNCHANGED <<include_ipv6, accept, interface_mode>>
    /\ UNCHANGED <<buf, pos, restrict, results>>
    /\ UNCHANGED match_vars

\* NetCandidateScanner::ignore_ipv6
ignore_ipv6 ==
    /\ usable
    /\ \E value \in BOOLEAN :
        IF value /\ ~include_ipv4
        THEN /\ usable' = FALSE
             /\ UNCHANGED <<include_ipv6, found>>
        ELSE /\ include_ipv6' = ~value
             /\ found' = NotCalled
             /\ UNCHANGED usable
    /\ UNCHANGED <<include_ipv4, accept, interface_mode>>
    /\ UNCHANGED <<buf, pos, restrict, results>>
    /\ UNCHANGED match_vars

\* NetCandidateScanner::find_all(buf).  A panic inside it ends the run.
find_all ==
    /\ usable
    /\ LET f == find_all_impl(buf, accept, interface_mode,
                              include_ipv4, include_ipv6) IN
        /\ found' = f
        /\ usable' = (f.kind # "panic")
    /\ UNCHANGED <<include_ipv4, include_ipv6, accept, interface_mode>>
    /\ UNCHANGED <<buf, pos, restrict, results>>
    /\ UNCHANGED match_vars

\* No needle has been given and MatchMode::matches has not been called.
MatchIdle ==
    /\ needle = NoNeedle
    /\ haystack = NoNet
    /\ needle_net = NoNet
    /\ matched = NotMatched
    /\ netval = NoNetVal
    /\ run = NoRun
    /\ scans = <<>> /\ ctx = <<>> /\ fsi = <<>>

\* Needle::try_from(tok) on a needle argument (cli.rs, From<NeedleArg>);
\* its net is then the needle of the match.
needle_try_from ==
    /\ needle.kind = "token"
    /\ needle' = NeedleOf(needle.src, NetTryFrom(needle.src))
    /\ needle_net' = needle'.net
    /\ UNCHANGED <<haystack, matched, netval, run, scans, ctx, fsi>>
    /\ UNCHANGED <<buf, pos, restrict, results>>
    /\ UNCHANGED ncs_vars

\* mode.matches(&haystack, &needle)
match ==
    /\ haystack.ok /\ needle_net.ok
    /\ matched.kind # "panic"
    /\ \E mode \in {"Equals", "Contains", "Within", "Overlaps"} :
        matched' = matches(mode, haystack, needle_net)
    /\ UNCHANGED <<needle, haystack, needle_net, netval, run, scans, ctx, fsi>>
    /\ UNCHANGED <<buf, pos, restrict, results>>
    /\ UNCHANGED ncs_vars

\* The lexical scanner alone, over the buffers that concatenate at most
\* MaxTokens of the fragments "1", ".", ":", "/", "f", "z", " ", "::",
\* "1111", "1.1.1.1" and "::ffff:".
Init ==
    /\ \E n \in 0..MaxTokens :
        \E ts \in [1..n ->
            {<<49>>, <<46>>, <<58>>, <<47>>, <<102>>, <<122>>, <<32>>,
             <<58, 58>>, <<49, 49, 49, 49>>,
             <<49, 46, 49, 46, 49, 46, 49>>,
             <<58, 58, 102, 102, 102, 102, 58>>}] :
            buf = Flatten(ts)
    /\ ScannerNew /\ NcsNew /\ MatchIdle
Next == with_oldnet \/ next
Spec == Init /\ [][Next]_vars

\* The candidate scanner: builder calls and find_all over the lines.
InitFind ==
    /\ \E n \in 0..MaxWords : \E ws \in [1..n -> Words] : buf = Join(ws)
    /\ ScannerNew /\ NcsNew /\ MatchIdle
NextFind ==
    set_accept \/ set_interface_mode \/ ignore_ipv4 \/ ignore_ipv6 \/ find_all
SpecFind == InitFind /\ [][NextFind]_vars

\* Both scanners over the buffers of the form A/M.
InitOldNet ==
    /\ \E a \in OldNetAddresses : \E m \in OldNetMasks :
        buf = a \o <<47>> \o m
    /\ ScannerNew /\ NcsNew /\ MatchIdle
SpecOldNet == InitOldNet /\ [][Next \/ NextFind]_vars

\* The candidate scanner over the line of its own test and the lines
\* that hold a word k times, after the word h and before the word t when
\* these are not empty.
InitRepeat ==
    LET RepeatWords(h, w, k, t) ==
            (IF h = <<>> THEN <<>> ELSE <<h>>)
            \o [i \in 1..k |-> w]
            \o (IF t = <<>> THEN <<>> ELSE <<t>>)
    IN  /\ \/ buf = LinePlain
           \/ \E h \in {<<>>, WordLetter, WordBadOctet} : \E w \in Words :
                \E k \in 1..MaxRepeat :
                \E t \in {<<>>, WordLetter, WordDigits} :
                    buf = Join(RepeatWords(h, w, k, t))
        /\ ScannerNew /\ NcsNew /\ MatchIdle
SpecRepeat == InitRepeat /\ [][NextFind]_vars

\* The needles of the command line, matched against candidates: the
\* needle arguments are the words and the buffers "A/M".
InitNeedle ==
    /\ buf = <<>> /\ ScannerNew /\ NcsNew
    /\ \E s \in
            Words \cup {WordV6Net, WordMask}
            \cup {a \o <<47>> \o m : a \in OldNetAddresses, m \in OldNetMasks} :
        needle = Needle("token", s, NoNet)
    /\ haystack \in {n \in Nets : ~has_host_bits(n)}
    /\ needle_net = NoNet
    /\ matched = NotMatched
    /\ netval = NoNetVal
    /\ run = NoRun
    /\ scans = <<>> /\ ctx = <<>> /\ fsi = <<>>
SpecNeedle == InitNeedle /\ [][needle_try_from \/ match]_vars

\* core.rs, lines 105-107: a candidate of find_all becomes the haystack of
\* the matches.
take_candidate ==
    /\ found.kind = "ok"
    /\ \E k \in 1..Len(found.candidates) :
        haystack' = found.candidates[k].net
    /\ matched' = NotMatched
    /\ UNCHANGED <<needle, needle_net, netval, run, scans, ctx, fsi>>
    /\ UNCHANGED <<buf, pos, restrict, results>>
    /\ UNCHANGED ncs_vars

\* A line of one word is searched and its candidates are matched against a
\* needle of the command line.
InitGrep ==
    /\ buf \in {WordHost, WordNet \o Suffix16, WordHost \o Suffix16,
                WordHost \o <<47>> \o WordMask, WordV6 \o Suffix16,
                WordDigits}
    /\ ScannerNew /\ NcsNew
    /\ \E s \in {WordNet \o Suffix16, WordHost \o Suffix16,
                  WordV6Net \o Suffix16} :
        needle = Needle("token", s, NoNet)
    /\ haystack = NoNet
    /\ needle_net = NoNet
    /\ matched = NotMatched
    /\ netval = NoNetVal
    /\ run = NoRun
    /\ scans = <<>> /\ ctx = <<>> /\ fsi = <<>>
SpecGrep ==
    InitGrep /\ [][NextFind \/ needle_try_from \/ take_candidate \/ match]_vars

\* One step of one of the calls of find_all that run on the shared
\* scanner, each over its own buffer.
scan_step ==
    /\ \E i \in 1..Len(scans) :
        /\ scans[i].st \in {"new", "scanning"}
        /\ scans' = [scans EXCEPT ![i] =
                        scan_one(scans[i], accept, interface_mode,
                                 include_ipv4, include_ipv6)]
    /\ UNCHANGED <<needle, haystack, needle_net, matched, netval, run>>
    /\ UNCHANGED <<ctx, fsi>>
    /\ UNCHANGED <<buf, pos, restrict, results>>
    /\ UNCHANGED ncs_vars

\* Two calls of find_all on one scanner, over lines of two words.  A call
\* under way has its buffer, the cursor of its own NetLikeScanner, its own
\* candidates, and the configuration it was started on.
InitScans ==
    /\ buf = <<>> /\ ScannerNew
    /\ include_ipv4 = TRUE /\ include_ipv6 = TRUE
    /\ accept \in {AcceptCli, AcceptSet(TRUE, FALSE, FALSE, FALSE),
                   AcceptSet(TRUE, TRUE, TRUE, TRUE)}
    /\ interface_mode \in {"TreatAsIp", "TreatAsNetwork", "ComplainAndSkip"}
    /\ usable = TRUE /\ found = NotCalled
    /\ needle = NoNeedle
    /\ haystack = NoNet
    /\ needle_net = NoNet
    /\ matched = NotMatched
    /\ netval = NoNetVal
    /\ run = NoRun
    /\ scans \in [1..2 ->
            {[buf |-> Join(ws), pos |-> 0, st |-> "new", candidates |-> <<>>,
              complaints |-> 0, accept0 |-> accept,
              mode0 |-> interface_mode] :
                ws \in [1..2 -> {WordHost, WordHost \o Suffix16,
                                 WordV6Net \o Suffix16, WordDigits,
                                 WordLetter}]}]
    /\ ctx = <<>> /\ fsi = <<>>
SpecScans == InitScans /\ [][scan_step]_vars

\* push_before_line without the pop_front of lines 75-77.
push_before_line_unbounded ==
    /\ Len(ctx.pushed) < MaxPush
    /\ \E lineno \in 1..MaxLineno :
        ctx' = [CtxCalled(ctx, "push_before_line", lineno, FALSE) EXCEPT
                    !.pushed = Append(ctx.pushed, lineno),
                    !.queue =
                        IF ctx.before = 0 THEN ctx.queue
                        ELSE Append(ctx.queue, lineno)]
    /\ UNCHANGED <<buf, pos, restrict, results, ncs_vars, needle, haystack,
                   needle_net, matched, netval, run, scans, fsi>>

\* ContextBuffer::push_before_line(lineno, line); the queue entry is
\* written as its line number, which the copied bytes travel with.
push_before_line ==
    /\ Len(ctx.pushed) < MaxPush
    /\ \E lineno \in 1..MaxLineno :
        ctx' = [CtxCalled(ctx, "push_before_line", lineno, FALSE) EXCEPT
                    !.pushed = Append(ctx.pushed, lineno),
                    !.queue =
                        IF ctx.before = 0 THEN ctx.queue
                        ELSE IF Len(ctx.queue) + 1 > ctx.before
                        THEN Tail(Append(ctx.queue, lineno))
                        ELSE Append(ctx.queue, lineno)]
    /\ UNCHANGED <<buf, pos, restrict, results, ncs_vars, needle, haystack,
                   needle_net, matched, netval, run, scans, fsi>>

\* ContextBuffer::clear_before_lines
clear_before_lines ==
    /\ ctx' = [CtxCalled(ctx, "clear_before_lines", 0, FALSE) EXCEPT
                    !.pushed = <<>>, !.queue = <<>>]
    /\ UNCHANGED <<buf, pos, restrict, results, ncs_vars, needle, haystack,
                   needle_net, matched, netval, run, scans, fsi>>

\* request_after adding to the allowance instead of setting it.
request_after_adding ==
    /\ ctx' = [CtxCalled(ctx, "request_after", 0, FALSE) EXCEPT
                    !.after_remaining = ctx.after_remaining + ctx.after,
                    !.requested = TRUE, !.granted = 0]
    /\ UNCHANGED <<buf, pos, restrict, results, ncs_vars, needle, haystack,
                   needle_net, matched, netval, run, scans, fsi>>

\* ContextBuffer::request_after
request_after ==
    /\ ctx' = [CtxCalled(ctx, "request_after", 0, FALSE) EXCEPT
                    !.after_remaining = ctx.after,
                    !.requested = TRUE, !.granted = 0]
    /\ UNCHANGED <<buf, pos, restrict, results, ncs_vars, needle, haystack,
                   needle_net, matched, netval, run, scans, fsi>>

\* ContextBuffer::should_print_after_line
should_print_after_line ==
    /\ ctx' = IF ctx.after_remaining = 0
              THEN CtxCalled(ctx, "should_print_after_line", 0, FALSE)
              ELSE [CtxCalled(ctx, "should_print_after_line", 0, TRUE) EXCEPT
                        !.after_remaining = ctx.after_remaining - 1,
                        !.granted = ctx.granted + 1]
    /\ UNCHANGED <<buf, pos, restrict, results, ncs_vars, needle, haystack,
                   needle_net, matched, netval, run, scans, fsi>>

\* ContextBuffer::update_last_printed(lineno)
update_last_printed ==
    /\ \E lineno \in 0..MaxLineno :
        ctx' = [CtxCalled(ctx, "update_last_printed", lineno, FALSE) EXCEPT
                    !.last_printed_lineno = lineno]
    /\ UNCHANGED <<buf, pos, restrict, results, ncs_vars, needle, haystack,
                   needle_net, matched, netval, run, scans, fsi>>

\* is_new_match_block looking at the matching line alone.
is_new_match_block_of_line ==
    /\ \E lineno \in 1..MaxLineno :
        ctx' = CtxCalled(ctx, "is_new_match_block", lineno,
                    IF ctx.last_printed_lineno = 0 THEN FALSE
                    ELSE lineno > ctx.last_printed_lineno + 1)
    /\ UNCHANGED <<buf, pos, restrict, results, ncs_vars, needle, haystack,
                   needle_net, matched, netval, run, scans, fsi>>

\* ContextBuffer::is_new_match_block(lineno)
is_new_match_block ==
    /\ \E lineno \in 1..MaxLineno :
        ctx' = CtxCalled(ctx, "is_new_match_block", lineno,
                    IF ctx.last_printed_lineno = 0 THEN FALSE
                    ELSE (IF ctx.queue # <<>> THEN Head(ctx.queue)
                          ELSE lineno) > ctx.last_printed_lineno + 1)
    /\ UNCHANGED <<buf, pos, restrict, results, ncs_vars, needle, haystack,
                   needle_net, matched, netval, run, scans, fsi>>

\* ContextBuffer::from_show_context, then its calls in any order.
InitCtx ==
    /\ buf = <<>> /\ ScannerNew /\ NcsNew
    /\ needle = NoNeedle
    /\ haystack = NoNet
    /\ needle_net = NoNet
    /\ matched = NotMatched
    /\ netval = NoNetVal
    /\ run = NoRun
    /\ scans = <<>> /\ fsi = <<>>
    /\ \E b \in 0..MaxContext : \E a \in 0..MaxContext :
        ctx = from_show_context(b, a)
SpecCtx ==
    InitCtx /\ [][push_before_line \/ clear_before_lines \/ request_after
                  \/ should_print_after_line \/ update_last_printed
                  \/ is_new_match_block]_vars

\* FileSourceIter::next_impl, one turn of its loop: an entry is popped
\* and looked at.
fsi_pop ==
    /\ ~fsi.done
    /\ fsi.stack # <<>>
    /\ Len(fsi.log) < MaxPops
    /\ fsi' = next_path([fsi EXCEPT !.stack = Tail(fsi.stack)],
                        Head(fsi.stack))
    /\ UNCHANGED <<buf, pos, restrict, results, ncs_vars, needle, haystack,
                   needle_net, matched, netval, run, scans, ctx>>

\* FileSourceIter::next_impl, line 123: the stack is empty, the answer is
\* None.
fsi_none ==
    /\ ~fsi.done
    /\ fsi.stack = <<>>
    /\ fsi' = [fsi EXCEPT !.done = TRUE]
    /\ UNCHANGED <<buf, pos, restrict, results, ncs_vars, needle, haystack,
                   needle_net, matched, netval, run, scans, ctx>>

\* The trees: the directory 1 holds the entries 2 and 3; 2 is a file, a
\* symlink or a directory that holds 4; 3 is a file, a symlink or an
\* empty directory; 4 is a file or a symlink; a symlink points at any of
\* the four, itself included.  One or two of 1, 2, 3 are named on the
\* command line: FileSourceIter::new().set_recursion(recurse)
\* .add_files(files).  log is the history of the entries popped: the
\* entry, the directory it came to (0 if none), the item yielded for it
\* ("none" if none) and the number of entries it enqueued.
InitFsi ==
    /\ buf = <<>> /\ ScannerNew /\ NcsNew
    /\ needle = NoNeedle
    /\ haystack = NoNet
    /\ needle_net = NoNet
    /\ matched = NotMatched
    /\ netval = NoNetVal
    /\ run = NoRun
    /\ scans = <<>> /\ ctx = <<>>
    /\ \E n2 \in FsNodes(<<4>>) : \E n3 \in FsNodes(<<>>) :
        \E n4 \in FsNodes(<<>>) \ {[kind |-> "dir", entries |-> <<>>,
                                     target |-> 0]} :
        \E recurse \in {"No", "FollowDirectories",
                        "FollowDirectorySymlinks"} :
        \E k \in 1..2 : \E files \in [1..k -> 1..3] :
            fsi = [fs |-> <<[kind |-> "dir", entries |-> <<2, 3>>,
                             target |-> 0], n2, n3, n4>>,
                   recurse |-> recurse, files |-> files,
                   stack |-> [j \in 1..k |->
                                [follow |-> TRUE, node |-> files[j]]],
                   dirs_seen |-> {}, log |-> <<>>, done |-> FALSE]
SpecFsi == InitFsi /\ [][fsi_pop \/ fsi_none]_vars
SpecFsiFair == SpecFsi /\ WF_vars(fsi_pop \/ fsi_none)

\* MatchMode::matches on every pair of networks.
InitMatch ==
    /\ buf = <<>> /\ ScannerNew /\ NcsNew
    /\ needle = NoNeedle
    /\ haystack \in Nets
    /\ needle_net \in Nets
    /\ matched = NotMatched
    /\ netval = NoNetVal
    /\ run = NoRun
    /\ scans = <<>> /\ ctx = <<>> /\ fsi = <<>>

\* Net::try_from on the texts, and the calls on the parsed values.
net_try_from ==
    /\ netval.op = "text"
    /\ netval' = NetVal(netval.src, NetTryFrom(netval.src), "try_from",
                        NoNet, FALSE)
    /\ UNCHANGED <<needle, haystack, needle_net, matched, run, scans, ctx, fsi>>
    /\ UNCHANGED <<buf, pos, restrict, results>>
    /\ UNCHANGED ncs_vars

\* x.as_ip() on the current value x.
net_as_ip ==
    /\ netval.x.ok
    /\ netval' = NetVal(netval.src, as_ip(netval.x), "as_ip", netval.x,
                        netval.hb)
    /\ UNCHANGED <<needle, haystack, needle_net, matched, run, scans, ctx, fsi>>
    /\ UNCHANGED <<buf, pos, restrict, results>>
    /\ UNCHANGED ncs_vars

\* x.as_network() on the current value x.
net_as_network ==
    /\ netval.x.ok
    /\ netval' = NetVal(netval.src, as_network(netval.x), "as_network",
                        netval.x, netval.hb)
    /\ UNCHANGED <<needle, haystack, needle_net, matched, run, scans, ctx, fsi>>
    /\ UNCHANGED <<buf, pos, restrict, results>>
    /\ UNCHANGED ncs_vars

\* x.has_host_bits() on the current value x.
net_has_host_bits ==
    /\ netval.x.ok
    /\ netval' = NetVal(netval.src, netval.x, "has_host_bits", netval.x,
                        has_host_bits(netval.x))
    /\ UNCHANGED <<needle, haystack, needle_net, matched, run, scans, ctx, fsi>>
    /\ UNCHANGED <<buf, pos, restrict, results>>
    /\ UNCHANGED ncs_vars

\* The texts Net::try_from is run on: one of the addresses "10.0.0.0",
\* "10.0.1.0", "10.0.1.1", "256.1.1.1", "::1" and "1::", followed by
\* nothing or by one of the suffixes "/0", "/16", "/23", "/24", "/32",
\* "/33", "/128", "/255.255.254.0", "/255.255.0.0", "/255.0.255.0",
\* "/255.255.253.0", "/255.255.255.255", "/0.0.0.0", "/255.255.254" and
\* "/::".
InitNet ==
    /\ buf = <<>> /\ ScannerNew /\ NcsNew
    /\ needle = NoNeedle
    /\ haystack = NoNet
    /\ needle_net = NoNet
    /\ matched = NotMatched
    /\ \E s \in
            {a[1] \o a[2] : a \in
                {<<49, 48, 46, 48, 46, 48, 46, 48>>,
                 <<49, 48, 46, 48, 46, 49, 46, 48>>,
                 <<49, 48, 46, 48, 46, 49, 46, 49>>,
                 <<50, 53, 54, 46, 49, 46, 49, 46, 49>>,
                 <<58, 58, 49>>,
                 <<49, 58, 58>>}
                \X
                {<<>>,
                 <<47, 48>>,
                 <<47, 49, 54>>,
                 <<47, 50, 51>>,
                 <<47, 50, 52>>,
                 <<47, 51, 50>>,
                 <<47, 51, 51>>,
                 <<47, 49, 50, 56>>,
                 <<47, 50, 53, 53, 46, 50, 53, 53, 46, 50, 53, 52, 46, 48>>,
                 <<47, 50, 53, 53, 46, 50, 53, 53, 46, 48, 46, 48>>,
                 <<47, 50, 53, 53, 46, 48, 46, 50, 53, 53, 46, 48>>,
                 <<47, 50, 53, 53, 46, 50, 53, 53, 46, 50, 53, 51, 46, 48>>,
                 <<47, 50, 53, 53, 46, 50, 53, 53, 46, 50, 53, 53, 46, 50, 53, 53>>,
                 <<47, 48, 46, 48, 46, 48, 46, 48>>,
                 <<47, 50, 53, 53, 46, 50, 53, 53, 46, 50, 53, 52>>,
                 <<47, 58, 58>>}} :
        netval = NetVal(s, NoNet, "text", NoNet, FALSE)
    /\ run = NoRun
    /\ scans = <<>> /\ ctx = <<>> /\ fsi = <<>>
SpecNet ==
    InitNet /\ [][net_try_from \/ net_as_ip \/ net_as_network
                   \/ net_has_host_bits]_vars

\* run, lines 10-30: the parameters are looked at; the unsupported ones
\* panic.
run_start ==
    /\ run.exit = "new"
    /\ run' = [run EXCEPT !.exit = IF run.oldnet \/ run.before # 0
                                   THEN "panic" ELSE "running"]
    /\ UNCHANGED <<needle, haystack, needle_net, matched, netval>>
    /\ UNCHANGED <<scans, ctx, fsi>>
    /\ UNCHANGED <<buf, pos, restrict, results>>
    /\ UNCHANGED ncs_vars

\* run, lines 74-178: one turn of the loop over the files.
run_file ==
    /\ run.exit = "running"
    /\ run.next <= Len(run.files)
    /\ run' = AfterFile(run,
                        IF ~run.files[run.next].open THEN "nomatch"
                        ELSE ScanLines(run.files[run.next].lines, run.style))
    /\ UNCHANGED <<needle, haystack, needle_net, matched, netval>>
    /\ UNCHANGED <<scans, ctx, fsi>>
    /\ UNCHANGED <<buf, pos, restrict, results>>
    /\ UNCHANGED ncs_vars

\* run, lines 181-189, and main: the exit status once the files are done.
run_exit ==
    /\ run.exit = "running"
    /\ run.next > Len(run.files)
    /\ run' = [run EXCEPT !.exit = IF run.any_match THEN "0" ELSE "1"]
    /\ UNCHANGED <<needle, haystack, needle_net, matched, netval>>
    /\ UNCHANGED <<scans, ctx, fsi>>
    /\ UNCHANGED <<buf, pos, restrict, results>>
    /\ UNCHANGED ncs_vars

\* The parameters and the files of a run: a file cannot be opened, or has
\* lines among "1.1.1.1", "z" and "1.1.1.1 11111111", after which reading
\* may fail.  The output styles go by what a
\* matching line breaks: ShowNothing ends the loop over the lines and the
\* loop over the files, ShowFilesOnly the loop over the lines,
\* ShowLinesAndContext neither.
InitRun ==
    /\ buf = <<>> /\ ScannerNew /\ NcsNew
    /\ needle = NoNeedle
    /\ haystack = NoNet
    /\ needle_net = NoNet
    /\ matched = NotMatched
    /\ netval = NoNetVal
    /\ \E n \in 0..MaxFiles :
        \E fs \in [1..n ->
                {[open |-> FALSE, lines |-> <<>>, readerr |-> FALSE]}
                \cup
                {[open |-> TRUE, lines |-> ls, readerr |-> e] :
                    ls \in UNION {[1..m -> {WordHost, WordLetter,
                                            Join(<<WordHost, WordDigits>>)}] :
                                     m \in 0..MaxLines},
                    e \in BOOLEAN}] :
        \E o \in BOOLEAN : \E b \in {0, 1} :
        \E st \in {"ShowNothing", "ShowFilesOnly", "ShowLinesAndContext"} :
            run = [files |-> fs, oldnet |-> o, before |-> b, style |-> st,
                   next |-> 1, any_match |-> FALSE, exit |-> "new"]
    /\ scans = <<>> /\ ctx = <<>> /\ fsi = <<>>
SpecRun == InitRun /\ [][run_start \/ run_file \/ run_exit]_vars

\* run, lines 92-112, for one file: the next line is read, or the file is
\* at its end, and the candidates of the line that match are pushed.
read_line ==
    LET Scanned(m) ==
            IF m.kind = "panic"
            THEN [run EXCEPT !.lineno = run.lineno + 1, !.at = "panic"]
            ELSE [run EXCEPT !.lineno = run.lineno + 1,
                             !.matches = run.matches \o m.pushed,
                             !.at = "report"]
    IN  /\ run.at = "read"
        /\ run' = IF run.lineno = Len(run.lines)
                  THEN [run EXCEPT !.at = "end"]
                  ELSE Scanned(LineMatches(run.lines[run.lineno + 1],
                                           run.needles, run.match_mode))
        /\ UNCHANGED <<buf, pos, restrict, results, ncs_vars, needle, haystack,
                       needle_net, matched, netval, scans, ctx, fsi>>

\* run, lines 114-161: the matches of the line are reported as the output
\* style asks (printed, or counted: reported keeps them with the line
\* number) and cleared, or the loop over the lines is left.
report_line ==
    /\ run.at = "report"
    /\ run' =
        IF run.matches = <<>> THEN [run EXCEPT !.at = "read"]
        ELSE IF run.style \in {"ShowNothing", "ShowFilesOnlyNull",
                               "ShowFilesOnly"}
        THEN [run EXCEPT !.any_match = TRUE, !.at = "end"]
        ELSE IF run.style = "ShowCountsPerFile"
        THEN [run EXCEPT !.any_match = TRUE,
                         !.match_count = run.match_count + Len(run.matches),
                         !.reported = Append(run.reported,
                             [lineno |-> run.lineno, matches |-> run.matches]),
                         !.matches = <<>>, !.at = "read"]
        ELSE [run EXCEPT !.any_match = TRUE,
                         !.reported = Append(run.reported,
                             [lineno |-> run.lineno, matches |-> run.matches]),
                         !.matches = <<>>, !.at = "read"]
    /\ UNCHANGED <<buf, pos, restrict, results, ncs_vars, needle, haystack,
                   needle_net, matched, netval, scans, ctx, fsi>>

\* One file of a run: one or two needles among 1.1.1.1, 1.1.0.0/16 and
\* ::1, a match mode, an output style, and lines among "1.1.1.1 ::1",
\* "1.1.1.1 1.1.0.0/16", "2.2.2.2 1.1.1.1" and "1.1.1.1 11111111".
InitLines ==
    /\ buf = <<>> /\ ScannerNew /\ NcsNew
    /\ needle = NoNeedle
    /\ haystack = NoNet
    /\ needle_net = NoNet
    /\ matched = NotMatched
    /\ netval = NoNetVal
    /\ scans = <<>> /\ ctx = <<>> /\ fsi = <<>>
    /\ \E n \in 1..2 :
        \E needles \in [1..n -> {OkNet(FALSE, <<1, 1, 1, 1>>, 32),
                                 OkNet(FALSE, <<1, 1, 0, 0>>, 16),
                                 OkNet(TRUE, <<0, 0, 0, 0, 0, 0, 0, 1>>, 128)}] :
        \E mode \in {"Equals", "Contains", "Within", "Overlaps"} :
        \E style \in {"ShowNothing", "ShowFilesOnlyNull", "ShowFilesOnly",
                      "ShowCountsPerFile", "ShowOnlyMatching",
                      "ShowLinesAndContext"} :
        \E m \in 1..MaxLines :
        \E lines \in [1..m -> {Join(<<WordHost, WordV6>>),
                               Join(<<WordHost, WordNet \o Suffix16>>),
                               Join(<<<<50, 46, 50, 46, 50, 46, 50>>,
                                      WordHost>>),
                               Join(<<WordHost, WordDigits>>)}] :
            run = [needles |-> needles, match_mode |-> mode, style |-> style,
                   lines |-> lines, lineno |-> 0, matches |-> <<>>,
                   reported |-> <<>>, match_count |-> 0,
                   any_match |-> FALSE, at |-> "read"]
SpecLines == InitLines /\ [][read_line \/ report_line]_vars
SpecMatch == InitMatch /\ [][match]_vars

----------------------------------------------------------------------------
(* The lexical scanner: cursor, spans and the terminal answer.             *)

\* The spans the calls of next have yielded so far, in order.
Yielded == LET IsSome(r) == r.kind = "some" IN SelectSeq(results, IsSome)

\* C1: every call of next made with the cursor below the buffer length
\* returns, with the cursor strictly greater than before the call, and one
\* of the first Len(buf) + 1 calls answers None.
C1_CursorAdvances ==
    /\ \A i \in 1..Len(results) :
        results[i].pos0 < Len(buf) =>
            /\ results[i].kind # "panic"
            /\ results[i].pos1 > results[i].pos0
    /\ Len(results) > Len(buf) =>
        \E i \in 1..(Len(buf) + 1) : results[i].kind = "none"

\* C2: every yielded span has 0 <= start < end <= Len(buf), and every
\* later span starts at or after the end of the span before it.
C2_SpansOrdered ==
    /\ \A i \in 1..Len(Yielded) :
        /\ 0 <= Yielded[i].start
        /\ Yielded[i].start < Yielded[i].end
        /\ Yielded[i].end <= Len(buf)
    /\ \A i \in 1..(Len(Yielded) - 1) :
        /\ Yielded[i + 1].start >= Yielded[i].end
        /\ Yielded[i + 1].start > Yielded[i].start

\* C2's case: a span with a prefix-length or netmask suffix has been
\* yielded, and another span after it.
C2_Witness ==
    /\ Len(Yielded) >= 2
    /\ \E k \in Yielded[1].start..(Yielded[1].end - 1) : IsSlash(At(buf, k))

\* C3: after a call of next has answered None, no later call on the same
\* scanner yields a span.
C3_NoneIsFinal ==
    \A i \in 1..Len(results) : \A j \in (i + 1)..Len(results) :
        results[i].kind = "none" => results[j].kind # "some"

\* C4: no call of next reads the buffer outside [0, Len(buf)), so none
\* aborts the scan.
C4_NoOutOfBounds == \A i \in 1..Len(results) : results[i].kind # "panic"

\* C6: no yielded span starts right after an ASCII alphanumeric byte.
C6_NotAfterAlnum ==
    LET IsAlnum(b) == IsDigit(b) \/ IsAlpha(b) IN
    \A i \in 1..Len(Yielded) :
        Yielded[i].start > 0 => ~IsAlnum(At(buf, Yielded[i].start - 1))

\* C7: no yielded span is immediately followed by an ASCII alphanumeric
\* byte.
C7_NotBeforeAlnum ==
    LET IsAlnum(b) == IsDigit(b) \/ IsAlpha(b) IN
    \A i \in 1..Len(Yielded) :
        Yielded[i].end < Len(buf) => ~IsAlnum(At(buf, Yielded[i].end))

\* C8: when bytes a..b-1 are a maximal run of digits and periods made of
\* five or more digit groups separated by single periods, no yielded span
\* lies inside a..b.
C8_NoSpanInFiveGroups ==
    LET DigitOrPeriod(k) == IsDigit(At(buf, k)) \/ IsPeriod(At(buf, k))
        MaximalRun(a, b) ==
            /\ a < b
            /\ \A k \in a..(b - 1) : DigitOrPeriod(k)
            /\ a = 0 \/ ~DigitOrPeriod(a - 1)
            /\ b = Len(buf) \/ ~DigitOrPeriod(b)
        FiveGroups(a, b) ==
            /\ IsDigit(At(buf, a))
            /\ IsDigit(At(buf, b - 1))
            /\ \A k \in a..(b - 2) :
                ~(IsPeriod(At(buf, k)) /\ IsPeriod(At(buf, k + 1)))
            /\ Cardinality({k \in a..(b - 1) : IsPeriod(At(buf, k))}) >= 4
    IN  \A a \in 0..Len(buf) : \A b \in (a + 1)..Len(buf) :
            (MaximalRun(a, b) /\ FiveGroups(a, b)) =>
                \A i \in 1..Len(Yielded) :
                    ~(a <= Yielded[i].start /\ Yielded[i].end <= b)

----------------------------------------------------------------------------
(* The candidate scanner: the prefilter and the acceptance policy.         *)

\* C5: under a policy with a flag set, find_all returns the list of
\* matches that the scan and the validation of the buffer come to without
\* the prefilter.
C5_PrefilterChangesNothing ==
    (found.kind # "nocall" /\ SomeFlag(accept)) =>
        /\ found.kind =
             ScanAndValidate(buf, accept, interface_mode,
                             include_ipv4, include_ipv6).kind
        /\ found.candidates =
             ScanAndValidate(buf, accept, interface_mode,
                             include_ipv4, include_ipv6).candidates

\* C10: find_all is only ever called on a scanner whose acceptance policy
\* has at least one flag set.
C10_SomeFlagSet == found.kind # "nocall" => SomeFlag(accept)

----------------------------------------------------------------------------
(* Buffers A/M of two four-group dotted tokens.                            *)

\* C9, as claimed: for a buffer A/M the scanner yields the two spans A and
\* M without the legacy netmasks and the one span A/M with them, and for
\* every contiguous netmask M find_all returns the network A with the
\* leading one-bits of M as its prefix length when old-style networks are
\* accepted.
C9_OldNetAsClaimed ==
    LET \* Bit k (0 the most significant) of the 32 bits of the octets o.
        BitOf(o, k) == (o[(k \div 8) + 1] \div Pow2(7 - (k % 8))) % 2
        \* The number of leading one-bits of the octets o.
        LeadingOneBits(o) ==
            CHOOSE n \in 0..32 :
                /\ \A k \in 0..(n - 1) : BitOf(o, k) = 1
                /\ n = 32 \/ BitOf(o, n) = 0
        \* The octets m are a contiguous netmask: ones, then zeros only.
        IsContiguousMask(m) ==
            /\ \A k \in 1..4 : m[k] <= 255
            /\ \A k \in LeadingOneBits(m)..31 : BitOf(m, k) = 0
        \* Once the scan is over: two spans a and m without the legacy
        \* netmasks, one span a/m with them.
        OldNetSpans(a) ==
            NoneCount > 0 =>
                IF restrict = "IpsAndCidrs"
                THEN /\ Len(Yielded) = 2
                     /\ Yielded[1].start = 0
                     /\ Yielded[1].end = Len(a)
                     /\ Yielded[2].start = Len(a) + 1
                     /\ Yielded[2].end = Len(buf)
                ELSE /\ Len(Yielded) = 1
                     /\ Yielded[1].start = 0
                     /\ Yielded[1].end = Len(buf)
        \* The one candidate expected of find_all: the whole buffer, as the
        \* network a with the leading one-bits of m as its prefix length.
        OldNetCandidate(a, m) ==
            <<[range |-> <<0, Len(buf)>>,
               net |-> OkNet(FALSE, Ipv4Octets(a),
                             LeadingOneBits(Ipv4Octets(m)))]>>
    IN  \A a \in OldNetAddresses : \A m \in OldNetMasks :
            buf = a \o <<47>> \o m =>
                /\ OldNetSpans(a)
                /\ (/\ found.kind # "nocall"
                    /\ accept.oldnet
                    /\ IsContiguousMask(Ipv4Octets(m)))
                   => found.candidates = OldNetCandidate(a, m)

\* C9, amended: the spans as claimed; the network A with the leading
\* one-bits of M as its prefix length is returned when, besides, A is an
\* IPv4 address with no bit set outside M and IPv4 candidates are not
\* ignored.
C9_OldNet ==
    LET \* Bit k (0 the most significant) of the 32 bits of the octets o.
        BitOf(o, k) == (o[(k \div 8) + 1] \div Pow2(7 - (k % 8))) % 2
        \* The number of leading one-bits of the octets o.
        LeadingOneBits(o) ==
            CHOOSE n \in 0..32 :
                /\ \A k \in 0..(n - 1) : BitOf(o, k) = 1
                /\ n = 32 \/ BitOf(o, n) = 0
        \* The octets m are a contiguous netmask: ones, then zeros only.
        IsContiguousMask(m) ==
            /\ \A k \in 1..4 : m[k] <= 255
            /\ \A k \in LeadingOneBits(m)..31 : BitOf(m, k) = 0
        \* The octets a are an IPv4 address with no bit set outside the
        \* leading n bits.
        IsNetworkAddress(a, n) ==
            /\ \A k \in 1..4 : a[k] <= 255
            /\ \A k \in n..31 : BitOf(a, k) = 0
        \* Once the scan is over: two spans a and m without the legacy
        \* netmasks, one span a/m with them.
        OldNetSpans(a) ==
            NoneCount > 0 =>
                IF restrict = "IpsAndCidrs"
                THEN /\ Len(Yielded) = 2
                     /\ Yielded[1].start = 0
                     /\ Yielded[1].end = Len(a)
                     /\ Yielded[2].start = Len(a) + 1
                     /\ Yielded[2].end = Len(buf)
                ELSE /\ Len(Yielded) = 1
                     /\ Yielded[1].start = 0
                     /\ Yielded[1].end = Len(buf)
        \* The one candidate expected of find_all: the whole buffer, as the
        \* network a with the leading one-bits of m as its prefix length.
        OldNetCandidate(a, m) ==
            <<[range |-> <<0, Len(buf)>>,
               net |-> OkNet(FALSE, Ipv4Octets(a),
                             LeadingOneBits(Ipv4Octets(m)))]>>
    IN  \A a \in OldNetAddresses : \A m \in OldNetMasks :
            buf = a \o <<47>> \o m =>
                /\ OldNetSpans(a)
                /\ (/\ found.kind # "nocall"
                    /\ accept.oldnet
                    /\ include_ipv4
                    /\ IsContiguousMask(Ipv4Octets(m))
                    /\ IsNetworkAddress(Ipv4Octets(a),
                                        LeadingOneBits(Ipv4Octets(m))))
                   => /\ found.kind = "ok"
                      /\ found.candidates = OldNetCandidate(a, m)
                      /\ found.complaints = 0

\* C9's case: the scan of 1.1.0.0/255.255.0.0 is finished, the one
\* with the legacy netmasks, and find_all has returned its one candidate.
C9_Witness ==
    /\ buf = WordNet \o <<47>> \o WordMask
    /\ restrict = "AlsoOldNets"
    /\ NoneCount > 0
    /\ accept.oldnet
    /\ found.kind = "ok"
    /\ Len(found.candidates) = 1

----------------------------------------------------------------------------
(* The candidate scanner: interface addresses, order and repetition.       *)

\* C11: when find_all has been called, every span of the scan that is
\* parsed to a network with host bits, with interfaces accepted and its
\* family included, is treated by the interface mode: TreatAsIp pushes the
\* unchanged address with the maximal prefix length, TreatAsNetwork pushes
\* the masked address with the prefix length unchanged, both with the whole
\* span as range; ComplainAndSkip pushes nothing for the span and prints a
\* warning for each such span, and the later spans are still pushed.
C11_InterfacePolicy ==
    LET Text(sp) == Slice(buf, sp.start, sp.end)
        NumericSuffix(s) ==
            /\ FirstIndex(s, 47) # 0
            /\ FirstIndex(SubSeq(s, FirstIndex(s, 47), Len(s)), 46) = 0
        IsParsed(s) == ~(accept.oldnet /\ ~accept.net /\ NumericSuffix(s))
        Included(n) == IF n.v6 THEN include_ipv6 ELSE include_ipv4
        IsIface(n) == n.ok /\ has_host_bits(n) /\ Included(n)
        IsCase(s) == accept.iface /\ IsParsed(s) /\ IsIface(NetTryFrom(s))
        Masked(n) ==
            [k \in 1..Len(n.addr) |->
                n.addr[k]
                - (n.addr[k]
                   % Pow2(GroupBits(n.v6) - KeptBits(n.v6, n.len, k)))]
        Emitted(sp, n) ==
            \E k \in 1..Len(found.candidates) :
                found.candidates[k] = [range |-> <<sp.start, sp.end>>,
                                       net |-> n]
        NoneAt(sp) ==
            \A k \in 1..Len(found.candidates) :
                found.candidates[k].range # <<sp.start, sp.end>>
        Pushed(sp, h) == h.act = "push" => Emitted(sp, h.net)
        Treated(sp, n) ==
            CASE interface_mode = "TreatAsIp" ->
                    Emitted(sp, OkNet(n.v6, n.addr, IF n.v6 THEN 128 ELSE 32))
              [] interface_mode = "TreatAsNetwork" ->
                    Emitted(sp, OkNet(n.v6, Masked(n), n.len))
              [] OTHER -> NoneAt(sp)
        Cases(spans) == {i \in 1..Len(spans) : IsCase(Text(spans[i]))}
        Holds(spans) ==
            /\ \A i \in Cases(spans) :
                /\ Treated(spans[i], NetTryFrom(Text(spans[i])))
                /\ \A j \in (i + 1)..Len(spans) :
                    Pushed(spans[j],
                           HandleSpan(Text(spans[j]), accept, interface_mode,
                                      include_ipv4, include_ipv6))
            /\ interface_mode = "ComplainAndSkip" =>
                found.complaints >= Cardinality(Cases(spans))
    IN  found.kind # "nocall" =>
            Holds(ScanFrom(buf, 0, IF accept.oldnet THEN "AlsoOldNets"
                                   ELSE "IpsAndCidrs").spans)

\* C12: under the policy the command line applies by default (bare
\* addresses, CIDR networks and interface addresses accepted, interface
\* addresses treated as addresses, both families), find_all on
\* "plain 1.2.3.4 end" returns exactly one match, covering "1.2.3.4", and
\* on any line every dotted quad 1.1.0.0 or 1.1.1.1 that stands between two
\* spaces is the range of exactly one match.
C12_BareAddress ==
    LET IsDefault ==
            /\ accept = AcceptCli
            /\ interface_mode = "TreatAsIp"
            /\ include_ipv4 /\ include_ipv6
        IsBare(p) ==
            /\ p >= 1 /\ p + 8 <= Len(buf)
            /\ buf[p] = 32 /\ buf[p + 8] = 32
            /\ SubSeq(buf, p + 1, p + 7) \in {WordNet, WordHost}
        Matches(p) ==
            {k \in 1..Len(found.candidates) :
                found.candidates[k].range = <<p, p + 7>>}
    IN  IsDefault /\ found.kind # "nocall" =>
            /\ buf = LinePlain =>
                found.candidates =
                    <<[range |-> <<6, 13>>,
                       net |-> OkNet(FALSE, <<1, 2, 3, 4>>, 32)]>>
            /\ \A p \in 1..Len(buf) :
                IsBare(p) => Cardinality(Matches(p)) = 1

\* C13: the matches find_all returns are in strictly increasing order of
\* range start, and nothing is deduplicated: when two spans of the scan
\* hold the same text and the validator pushes that text, find_all returns
\* a match for each of the two, each with the range of its own span.
C13_OrderedNoDedup ==
    LET Text(sp) == Slice(buf, sp.start, sp.end)
        Accepted(sp) ==
            HandleSpan(Text(sp), accept, interface_mode,
                       include_ipv4, include_ipv6).act = "push"
        MatchesAt(sp) ==
            {k \in 1..Len(found.candidates) :
                found.candidates[k].range = <<sp.start, sp.end>>}
        Twice(spans) ==
            \A i \in 1..Len(spans) : \A j \in (i + 1)..Len(spans) :
                Text(spans[i]) = Text(spans[j]) /\ Accepted(spans[i]) =>
                    /\ Cardinality(MatchesAt(spans[i])) = 1
                    /\ Cardinality(MatchesAt(spans[j])) = 1
                    /\ \A a \in MatchesAt(spans[i]) :
                        \A b \in MatchesAt(spans[j]) :
                            /\ a < b
                            /\ found.candidates[a].net
                                   = found.candidates[b].net
    IN  found.kind # "nocall" =>
            /\ \A k \in 1..(Len(found.candidates) - 1) :
                found.candidates[k].range[1]
                    < found.candidates[k + 1].range[1]
            /\ Twice(ScanFrom(buf, 0, IF accept.oldnet THEN "AlsoOldNets"
                                      ELSE "IpsAndCidrs").spans)

----------------------------------------------------------------------------
(* Needles and match modes.                                                *)

\* C14: once a needle argument has been converted, the result is the error
\* NotAnIp when the text does not parse, the error HostBitsSet when it
\* parses to a network with a bit set outside its prefix, and otherwise,
\* and only then, a Needle holding the text and the parsed network.
C14_NeedleChecked ==
    LET HostBits(n) ==
            \E k \in 1..Len(n.addr) :
                n.addr[k] % Pow2(GroupBits(n.v6) - KeptBits(n.v6, n.len, k))
                    # 0
        Checked(nd, n) ==
            /\ ~n.ok => nd.kind = "NotAnIp"
            /\ n.ok /\ HostBits(n) => nd.kind = "HostBitsSet"
            /\ n.ok /\ ~HostBits(n) => nd.kind = "ok" /\ nd.net = n
            /\ nd.kind = "ok" => nd.net.ok /\ ~HostBits(nd.net)
    IN  needle.kind \notin {"none", "token"} =>
            Checked(needle, NetTryFrom(needle.src))

\* C14's case: the needle argument "1.1.1.1/16" has been refused for its
\* host bits.
C14_Witness ==
    /\ needle.kind = "HostBitsSet"
    /\ needle.src = WordHost \o Suffix16

\* C15: for every haystack H and every needle N without host bits,
\* Contains.matches(H, N) and Within.matches(N, H) both return, and return
\* the same boolean.
C15_ContainsIsWithinSwapped ==
    LET HostBits(n) ==
            \E k \in 1..Len(n.addr) :
                n.addr[k] % Pow2(GroupBits(n.v6) - KeptBits(n.v6, n.len, k))
                    # 0
        Same(a, b) ==
            a.kind = "bool" /\ b.kind = "bool" /\ a.value = b.value
    IN  /\ matched.mode = "Contains" /\ ~HostBits(needle_net) =>
            Same(matched, matches("Within", needle_net, haystack))
        /\ matched.mode = "Within" /\ ~HostBits(haystack) =>
            Same(matched, matches("Contains", needle_net, haystack))

\* C15's case: Contains.matches(10.0.0.0/24, 10.0.0.128/25) has returned
\* true.
C15_Witness ==
    /\ matched = MatchBool("Contains", TRUE)
    /\ haystack = OkNet(FALSE, <<10, 0, 0, 0>>, 24)
    /\ needle_net = OkNet(FALSE, <<10, 0, 0, 128>>, 25)

\* C16: for two networks of the same family, a call of Contains whose
\* needle has no host bits returns true exactly when every address of the
\* needle's range is an address of the haystack's range, and a call of
\* Within whose haystack has no host bits returns true exactly when every
\* address of the haystack's range is an address of the needle's range.
\* The range of a network of prefix length l is the set of the addresses
\* that agree with its address on the first l bits, so a range lies inside
\* another exactly when its prefix is at least as long and the two
\* addresses agree on the shorter prefix.
C16_ContainsIsRangeInclusion ==
    LET HostBits(n) ==
            \E k \in 1..Len(n.addr) :
                n.addr[k] % Pow2(GroupBits(n.v6) - KeptBits(n.v6, n.len, k))
                    # 0
        Bit(n, k) ==
            (n.addr[(k \div GroupBits(n.v6)) + 1]
                \div Pow2(GroupBits(n.v6) - 1 - (k % GroupBits(n.v6)))) % 2
        RangeInside(inner, outer) ==
            /\ outer.len <= inner.len
            /\ \A k \in 0..(outer.len - 1) : Bit(inner, k) = Bit(outer, k)
    IN  haystack.v6 = needle_net.v6 =>
            /\ matched.mode = "Contains" /\ ~HostBits(needle_net) =>
                /\ matched.kind = "bool"
                /\ matched.value = RangeInside(needle_net, haystack)
            /\ matched.mode = "Within" /\ ~HostBits(haystack) =>
                /\ matched.kind = "bool"
                /\ matched.value = RangeInside(haystack, needle_net)

\* C16's case: Within.matches(10.0.0.128/25, 10.0.0.0/24) has returned
\* true.
C16_Witness ==
    /\ matched = MatchBool("Within", TRUE)
    /\ haystack = OkNet(FALSE, <<10, 0, 0, 128>>, 25)
    /\ needle_net = OkNet(FALSE, <<10, 0, 0, 0>>, 24)

\* C17: Overlaps is symmetric: every call Overlaps.matches(A, B) returns,
\* and returns the boolean Overlaps.matches(B, A) returns.
C17_OverlapsSymmetric ==
    matched.mode = "Overlaps" =>
        /\ matched.kind = "bool"
        /\ matches("Overlaps", needle_net, haystack).kind = "bool"
        /\ matched.value = matches("Overlaps", needle_net, haystack).value

\* C17's case: Overlaps.matches(10.0.0.128/25, 10.0.0.0/24) has returned
\* true, the first network not holding the base address of the second.
C17_Witness ==
    /\ matched = MatchBool("Overlaps", TRUE)
    /\ haystack = OkNet(FALSE, <<10, 0, 0, 128>>, 25)
    /\ needle_net = OkNet(FALSE, <<10, 0, 0, 0>>, 24)

\* C18: a call of Overlaps returns true exactly when the two networks are
\* of the same family and their ranges share an address, that is, when
\* their addresses agree on the first bits up to the shorter of the two
\* prefix lengths.
C18_OverlapsIsRangeIntersection ==
    LET Bit(n, k) ==
            (n.addr[(k \div GroupBits(n.v6)) + 1]
                \div Pow2(GroupBits(n.v6) - 1 - (k % GroupBits(n.v6)))) % 2
        Shorter(a, b) == IF a.len < b.len THEN a.len ELSE b.len
        Share(a, b) ==
            /\ a.v6 = b.v6
            /\ \A k \in 0..(Shorter(a, b) - 1) : Bit(a, k) = Bit(b, k)
    IN  matched.mode = "Overlaps" =>
            /\ matched.kind = "bool"
            /\ matched.value = Share(haystack, needle_net)

\* C18's case: Overlaps.matches(10.0.0.1/24, 10.0.0.128/25) has returned
\* true: the ranges 10.0.0.0-10.0.0.255 and 10.0.0.128-10.0.0.255 share
\* addresses.
C18_Witness ==
    /\ matched = MatchBool("Overlaps", TRUE)
    /\ haystack = OkNet(FALSE, <<10, 0, 0, 1>>, 24)
    /\ needle_net = OkNet(FALSE, <<10, 0, 0, 128>>, 25)

\* C19: every call of matches on two networks of different families, in
\* any of the four modes and with either family as the haystack, returns
\* false.
C19_MixedFamiliesNeverMatch ==
    haystack.ok /\ needle_net.ok /\ haystack.v6 # needle_net.v6
    /\ matched.kind # "nocall" =>
        matched = MatchBool(matched.mode, FALSE)

\* C20: every call of matches, in every mode and on every pair of
\* networks, returns a boolean: no assertion fails.
C20_MatchesIsTotal ==
    matched.kind # "nocall" =>
        matched.kind = "bool" /\ matched.value \in BOOLEAN

----------------------------------------------------------------------------
(* The candidate scanner: the acceptance policy and the parse.             *)

\* C21: when only bare addresses are accepted and find_all has been
\* called, every span of the scan that holds a '/' and whose text before
\* the '/' is an address of an included family is the range of a match
\* that holds this address with the maximal prefix length of its family,
\* whatever the suffix says.
C21_OnlyIpDowngrades ==
    LET Text(sp) == Slice(buf, sp.start, sp.end)
        Before(s) == SubSeq(s, 1, FirstIndex(s, 47) - 1)
        Included(n) == IF n.v6 THEN include_ipv6 ELSE include_ipv4
        Emitted(sp, n) ==
            \E k \in 1..Len(found.candidates) :
                found.candidates[k] = [range |-> <<sp.start, sp.end>>,
                                       net |-> n]
        Downgraded(sp, n) ==
            n.ok /\ Included(n) =>
                Emitted(sp, OkNet(n.v6, n.addr, IF n.v6 THEN 128 ELSE 32))
        Holds(spans) ==
            \A i \in 1..Len(spans) :
                FirstIndex(Text(spans[i]), 47) # 0 =>
                    Downgraded(spans[i], NetTryFrom(Before(Text(spans[i]))))
    IN  accept = AcceptSet(TRUE, FALSE, FALSE, FALSE)
        /\ found.kind # "nocall" =>
            Holds(ScanFrom(buf, 0, "IpsAndCidrs").spans)

\* C22: when legacy netmasks are accepted and numeric prefix lengths are
\* not, and find_all has been called: no span whose suffix after the '/'
\* has no period is the range of a match; every span "A/M" that parses to a
\* network without host bits, of an included family, is the range of a
\* match holding that network; a span "A/M" that parses to a network with
\* host bits is the range of a match only if interfaces are accepted; and a
\* span without '/' is the range of a match only if bare addresses are
\* accepted.
C22_OnlyOldNet ==
    LET Text(sp) == Slice(buf, sp.start, sp.end)
        HasSlash(s) == FirstIndex(s, 47) # 0
        Dotted(s) ==
            FirstIndex(SubSeq(s, FirstIndex(s, 47), Len(s)), 46) # 0
        HostBits(n) ==
            \E k \in 1..Len(n.addr) :
                n.addr[k] % Pow2(GroupBits(n.v6) - KeptBits(n.v6, n.len, k))
                    # 0
        Included(n) == IF n.v6 THEN include_ipv6 ELSE include_ipv4
        Emitted(sp, n) ==
            \E k \in 1..Len(found.candidates) :
                found.candidates[k] = [range |-> <<sp.start, sp.end>>,
                                       net |-> n]
        NoneAt(sp) ==
            \A k \in 1..Len(found.candidates) :
                found.candidates[k].range # <<sp.start, sp.end>>
        OldNet(sp, n) ==
            /\ n.ok /\ ~HostBits(n) /\ Included(n) => Emitted(sp, n)
            /\ n.ok /\ HostBits(n) /\ ~accept.iface => NoneAt(sp)
        Span(sp, s) ==
            /\ HasSlash(s) /\ ~Dotted(s) => NoneAt(sp)
            /\ HasSlash(s) /\ Dotted(s) => OldNet(sp, NetTryFrom(s))
            /\ ~HasSlash(s) /\ ~accept.ip => NoneAt(sp)
        Holds(spans) ==
            \A i \in 1..Len(spans) : Span(spans[i], Text(spans[i]))
    IN  accept.oldnet /\ ~accept.net /\ found.kind # "nocall" =>
            Holds(ScanFrom(buf, 0, "AlsoOldNets").spans)

C24_BadOctetDropped ==
    LET Text(sp) == Slice(buf, sp.start, sp.end)
        IsBad(p) ==
            /\ p + 9 <= Len(buf)
            /\ Slice(buf, p, p + 9) = WordBadOctet
            /\ p = 0 \/ buf[p] = 32
            /\ p + 9 = Len(buf) \/ buf[p + 10] = 32
        NoneAt(p) ==
            \A k \in 1..Len(found.candidates) :
                found.candidates[k].range # <<p, p + 9>>
        Emitted(sp) ==
            \E k \in 1..Len(found.candidates) :
                found.candidates[k].range = <<sp.start, sp.end>>
        Pushed(sp) ==
            HandleSpan(Text(sp), accept, interface_mode,
                       include_ipv4, include_ipv6).act = "push"
        Holds(spans) ==
            \A p \in 0..Len(buf) :
                IsBad(p) =>
                    /\ \E i \in 1..Len(spans) :
                        spans[i] = [start |-> p, end |-> p + 9]
                    /\ NoneAt(p)
                    /\ \A j \in 1..Len(spans) :
                        spans[j].start > p /\ Pushed(spans[j]) =>
                            Emitted(spans[j])
    IN  found.kind # "nocall" =>
            Holds(ScanFrom(buf, 0, IF accept.oldnet THEN "AlsoOldNets"
                                   ELSE "IpsAndCidrs").spans)

----------------------------------------------------------------------------
(* Network values.                                                         *)

\* C25: a call of as_ip on a value x gives x's address with the maximal
\* prefix length of x's family; a call of as_network gives x's prefix
\* length and x's address with every bit outside the prefix cleared; a call
\* of has_host_bits answers true exactly when as_network(x) differs from x;
\* the results of as_ip and as_network have no bit set outside their
\* prefix, and as_network leaves the result of as_network as it is.
C25_NetAlgebra ==
    LET Bit(n, k) ==
            (n.addr[(k \div GroupBits(n.v6)) + 1]
                \div Pow2(GroupBits(n.v6) - 1 - (k % GroupBits(n.v6)))) % 2
        MaxLen(n) == IF n.v6 THEN 128 ELSE 32
        HostBits(n) == \E k \in n.len..(MaxLen(n) - 1) : Bit(n, k) = 1
        SameShape(a, b) ==
            a.ok /\ a.v6 = b.v6 /\ Len(a.addr) = Len(b.addr)
        IsIp(r, x) ==
            /\ SameShape(r, x)
            /\ r.addr = x.addr
            /\ r.len = MaxLen(x)
            /\ ~HostBits(r)
        IsNetwork(r, x) ==
            /\ SameShape(r, x)
            /\ r.len = x.len
            /\ \A k \in 0..(MaxLen(x) - 1) :
                Bit(r, k) = IF k < x.len THEN Bit(x, k) ELSE 0
            /\ ~HostBits(r)
            /\ as_network(r) = r
    IN  /\ netval.op = "as_ip" => IsIp(netval.x, netval.from)
        /\ netval.op = "as_network" => IsNetwork(netval.x, netval.from)
        /\ netval.op = "has_host_bits" =>
            /\ netval.hb = (as_network(netval.x) # netval.x)
            /\ netval.hb = HostBits(netval.x)

\* C25's case: as_network has been called on the value parsed from
\* "10.0.1.1/23" and has given 10.0.0.0/23.
C25_Witness ==
    /\ netval.op = "as_network"
    /\ netval.from = OkNet(FALSE, <<10, 0, 1, 1>>, 23)
    /\ netval.x = OkNet(FALSE, <<10, 0, 0, 0>>, 23)

\* C26: when a text "A/M", M holding a period, has been parsed, the parse
\* succeeded only if A is an IPv4 address and the one-bits of the mask M
\* are all leading; the value then has the address A and, as prefix length,
\* the number of these one-bits, and equals the value parsed from A
\* followed by '/' and that number.  A mask with a zero bit before a one
\* bit is a parse error.
C26_DottedMask ==
    LET Slash(s) == FirstIndex(s, 47)
        Addr(s) == SubSeq(s, 1, Slash(s) - 1)
        Mask(s) == SubSeq(s, Slash(s) + 1, Len(s))
        IsDotted(s) == Slash(s) # 0 /\ FirstIndex(Mask(s), 46) # 0
        MaskBit(m, k) == (m[(k \div 8) + 1] \div Pow2(7 - (k % 8))) % 2
        Ones(m) == Cardinality({k \in 0..31 : MaskBit(m, k) = 1})
        Leading(m) ==
            \A k \in 1..31 : MaskBit(m, k) = 1 => MaskBit(m, k - 1) = 1
        Dec(n) ==
            IF n < 10 THEN <<48 + n>> ELSE <<48 + (n \div 10), 48 + (n % 10)>>
        Parsed(x, a, m) ==
            /\ x.ok =>
                /\ IsIpv4Text(a, TRUE) /\ IsIpv4Text(m, TRUE)
                /\ Leading(Ipv4Octets(m))
                /\ x = OkNet(FALSE, Ipv4Octets(a), Ones(Ipv4Octets(m)))
                /\ x = NetTryFrom(a \o <<47>> \o Dec(Ones(Ipv4Octets(m))))
            /\ IsIpv4Text(m, TRUE) /\ ~Leading(Ipv4Octets(m)) => ~x.ok
    IN  netval.op = "try_from" /\ IsDotted(netval.src) =>
            Parsed(netval.x, Addr(netval.src), Mask(netval.src))

\* C26's case: "10.0.1.0/255.255.254.0" has been parsed.
C26_Witness ==
    /\ netval.op = "try_from"
    /\ netval.src =
        <<49, 48, 46, 48, 46, 49, 46, 48, 47,
          50, 53, 53, 46, 50, 53, 53, 46, 50, 53, 52, 46, 48>>
    /\ netval.x = OkNet(FALSE, <<10, 0, 1, 0>>, 23)


\* C27: when run has come to its exit status, the status is 0 if a line of
\* some file held a candidate that matched the needle, 2 if nothing matched
\* and a file could not be opened or read, and 1 if nothing matched and no
\* file failed.
C27_ExitStatus ==
    run.exit \in {"0", "1", "2"} =>
        run.exit = IF run.any_match THEN "0"
                   ELSE IF \E k \in 1..Len(run.files) :
                               ~run.files[k].open \/ run.files[k].readerr
                   THEN "2"
                   ELSE "1"


\* C28: a yielded span that holds a colon before any '/' holds a period
\* there only when it begins with "::ffff:", the f's in either case: every
\* other token of the IPv6 path ends just before the period, wherever it
\* lies in the buffer.
C28_PeriodOnlyAfterMapped ==
    LET EitherF(b) == b \in {70, 102}
        Mapped(s) ==
            /\ s + 7 <= Len(buf)
            /\ At(buf, s) = 58 /\ At(buf, s + 1) = 58
            /\ EitherF(At(buf, s + 2)) /\ EitherF(At(buf, s + 3))
            /\ EitherF(At(buf, s + 4)) /\ EitherF(At(buf, s + 5))
            /\ At(buf, s + 6) = 58
        InHead(s, e, k) ==
            /\ k \in s..(e - 1)
            /\ \A j \in s..k : At(buf, j) # 47
    IN  \A i \in 1..Len(Yielded) :
            (/\ \E k \in 0..Len(buf) :
                    InHead(Yielded[i].start, Yielded[i].end, k)
                    /\ At(buf, k) = 58
             /\ \E k \in 0..Len(buf) :
                    InHead(Yielded[i].start, Yielded[i].end, k)
                    /\ At(buf, k) = 46)
            => Mapped(Yielded[i].start)


\* C29: the part before any '/' of every yielded span is either four groups
\* of one to three decimal digits separated by three periods, or holds at
\* least two colons.
C29_IpShaped ==
    LET HeadEnd(s, e) ==
            IF \E k \in s..(e - 1) : At(buf, k) = 47
            THEN CHOOSE k \in s..(e - 1) :
                    At(buf, k) = 47 /\ \A j \in s..(k - 1) : At(buf, j) # 47
            ELSE e
        Count(s, e, b) == Cardinality({k \in s..(e - 1) : At(buf, k) = b})
        Dotted(s, e) ==
            /\ s < e
            /\ \A k \in s..(e - 1) : IsDigit(At(buf, k)) \/ At(buf, k) = 46
            /\ Count(s, e, 46) = 3
            /\ IsDigit(At(buf, s)) /\ IsDigit(At(buf, e - 1))
            /\ \A k \in s..(e - 2) : ~(At(buf, k) = 46 /\ At(buf, k + 1) = 46)
            /\ \A k \in s..(e - 4) :
                    \E j \in k..(k + 3) : ~IsDigit(At(buf, j))
        Shaped(s, e) == Dotted(s, e) \/ Count(s, e, 58) >= 2
    IN  \A i \in 1..Len(Yielded) :
            Shaped(Yielded[i].start,
                   HeadEnd(Yielded[i].start, Yielded[i].end))


\* C30: once the scan is over (a call of next aborted or answered None),
\* every maximal space-delimited token of the buffer that is four groups
\* of one to three digits separated by three periods, or is made of hex
\* digits and colons with at least two colons (a leading colon being the
\* first of two), is the span of exactly one yielded result.
C30_DelimitedTokensYielded ==
    LET Count(a, b, c) == Cardinality({k \in a..(b - 1) : At(buf, k) = c})
        Delimited(a, b) ==
            /\ a < b
            /\ \A k \in a..(b - 1) : At(buf, k) # 32
            /\ a = 0 \/ At(buf, a - 1) = 32
            /\ b = Len(buf) \/ At(buf, b) = 32
        Dotted(a, b) ==
            /\ \A k \in a..(b - 1) : IsDigit(At(buf, k)) \/ At(buf, k) = 46
            /\ Count(a, b, 46) = 3
            /\ IsDigit(At(buf, a)) /\ IsDigit(At(buf, b - 1))
            /\ \A k \in a..(b - 2) : ~(At(buf, k) = 46 /\ At(buf, k + 1) = 46)
            /\ \A k \in a..(b - 4) :
                    \E j \in k..(k + 3) : ~IsDigit(At(buf, j))
        Coloned(a, b) ==
            /\ \A k \in a..(b - 1) :
                    IsHexDigit(At(buf, k)) \/ At(buf, k) = 58
            /\ Count(a, b, 58) >= 2
            /\ At(buf, a) = 58 => At(buf, a + 1) = 58
    IN  ((results # <<>> /\ results[Len(results)].kind = "panic")
         \/ NoneCount >= 1) =>
            \A a \in 0..Len(buf) : \A b \in (a + 1)..Len(buf) :
                (Delimited(a, b) /\ (Dotted(a, b) \/ Coloned(a, b))) =>
                    Cardinality({i \in 1..Len(Yielded) :
                        Yielded[i].start = a /\ Yielded[i].end = b}) = 1


----------------------------------------------------------------------------
(* Candidates as haystacks, contexts, files and reports.                   *)

\* C31: no network returned by find_all has a bit set outside its prefix,
\* whatever the policy, the interface mode and the line; and no call of
\* matches whose haystack is a candidate of find_all and whose needle comes
\* from Needle::try_from fails an assertion, in Within or in Contains.
C31_CandidatesHaveNoHostBits ==
    LET HostBits(n) ==
            \E k \in 1..Len(n.addr) :
                n.addr[k] % Pow2(GroupBits(n.v6) - KeptBits(n.v6, n.len, k))
                    # 0
    IN  /\ \A k \in 1..Len(found.candidates) :
            found.candidates[k].net.ok /\ ~HostBits(found.candidates[k].net)
        /\ haystack.ok => ~HostBits(haystack)
        /\ needle.kind = "ok" => ~HostBits(needle_net)
        /\ matched.kind # "nocall" => matched.kind = "bool"

\* C31's case: "1.1.1.1/16" was found as the network 1.1.0.0/16 and Within
\* has answered on it against the needle 1.1.0.0/16.
C31_Witness ==
    /\ buf = WordHost \o Suffix16
    /\ interface_mode = "TreatAsNetwork"
    /\ haystack = OkNet(FALSE, <<1, 1, 0, 0>>, 16)
    /\ needle.kind = "ok"
    /\ matched = MatchBool("Within", TRUE)


\* C32: for two networks of the same family without host bits, Equals
\* answers true exactly when Contains and Within both answer true, and
\* never for two networks with the same address and different prefix
\* lengths.
C32_EqualsIsContainsAndWithin ==
    LET HostBits(n) ==
            \E k \in 1..Len(n.addr) :
                n.addr[k] % Pow2(GroupBits(n.v6) - KeptBits(n.v6, n.len, k))
                    # 0
        Res(m) ==
            IF matched.mode = m THEN matched
            ELSE matches(m, haystack, needle_net)
        Related(e, c, w) ==
            /\ e.kind = "bool" /\ c.kind = "bool" /\ w.kind = "bool"
            /\ e.value = (c.value /\ w.value)
            /\ (haystack.addr = needle_net.addr
                /\ haystack.len # needle_net.len) => ~e.value
    IN  (/\ matched.mode \in {"Equals", "Contains", "Within"}
         /\ haystack.v6 = needle_net.v6
         /\ ~HostBits(haystack) /\ ~HostBits(needle_net))
        => Related(Res("Equals"), Res("Contains"), Res("Within"))

\* C32's case: Equals has answered false on 10.0.0.0/24 and 10.0.0.0/25,
\* the same address under two prefix lengths.
C32_Witness ==
    /\ matched = MatchBool("Equals", FALSE)
    /\ haystack = OkNet(FALSE, <<10, 0, 0, 0>>, 24)
    /\ needle_net = OkNet(FALSE, <<10, 0, 0, 0>>, 25)


\* C33: when two calls of find_all run on one scanner over their own
\* buffers, their steps interleaved in any order, every call that has
\* ended has come to what find_all comes to on its buffer alone: the same
\* panic, or the same list of matches and the same warnings; and the
\* configuration is the one the calls were started on.
C33_ScansDoNotInterfere ==
    LET Alone(sc) ==
            find_all_impl(sc.buf, sc.accept0, sc.mode0, TRUE, TRUE)
        Same(sc, f) ==
            /\ sc.st = "panic" => f.kind = "panic"
            /\ sc.st = "done" => f = Found(sc.candidates, sc.complaints)
    IN  \A i \in 1..Len(scans) :
            /\ scans[i].accept0 = accept
            /\ scans[i].mode0 = interface_mode
            /\ include_ipv4 /\ include_ipv6
            /\ scans[i].st \in {"panic", "done"} =>
                Same(scans[i], Alone(scans[i]))

\* C33's case: the call over "1.1.1.1 1::/16" has returned its two matches
\* while the call over "1::/16 1.1.1.1" has pushed its first.
C33_Witness ==
    /\ Len(scans) = 2
    /\ scans[1].buf = Join(<<WordHost, WordV6Net \o Suffix16>>)
    /\ scans[1].st = "done" /\ Len(scans[1].candidates) = 2
    /\ scans[2].buf = Join(<<WordV6Net \o Suffix16, WordHost>>)
    /\ scans[2].st = "scanning" /\ Len(scans[2].candidates) = 1


\* C34: after any calls of push_before_line and clear_before_lines the
\* queue holds at most `before` entries, namely the last min(before, k) of
\* the k lines pushed since the last clear, in the order of the pushes;
\* with before = 0 the queue is empty.
C34_BeforeQueue ==
    LET LastOf(s, m) == SubSeq(s, Len(s) - m + 1, Len(s))
        Smaller(a, b) == IF a < b THEN a ELSE b
    IN  /\ ctx.op # "new" => Len(ctx.queue) <= ctx.before
        /\ ctx.op # "new" =>
            ctx.queue = LastOf(ctx.pushed,
                               Smaller(ctx.before, Len(ctx.pushed)))
        /\ ctx.op # "new" /\ ctx.before = 0 => ctx.queue = <<>>

\* C34's case: with before = 2 the lines 1, 2, 3 were pushed and the queue
\* holds 2 and 3.
C34_Witness ==
    /\ ctx.op = "push_before_line"
    /\ ctx.before = 2
    /\ ctx.pushed = <<1, 2, 3>>
    /\ ctx.queue = <<2, 3>>

\* C35: the remaining allowance never exceeds `after`; once request_after
\* was called, the allowance and the after-lines granted since the last
\* request add up to `after`, so should_print_after_line answers true
\* `after` times and then false; before any request it answers false.
C35_AfterCountdown ==
    LET Answered ==
            /\ ctx.value => ctx.requested /\ ctx.granted >= 1
            /\ ~ctx.value => ctx.after_remaining = 0
            /\ ~ctx.value /\ ctx.requested => ctx.granted = ctx.after
    IN  ctx.op # "new" =>
            /\ ctx.after_remaining <= ctx.after
            /\ ctx.granted <= ctx.after
            /\ ctx.requested =>
                ctx.after_remaining + ctx.granted = ctx.after
            /\ ~ctx.requested => ctx.after_remaining = 0
            /\ ctx.op = "request_after" => ctx.after_remaining = ctx.after
            /\ ctx.op = "should_print_after_line" => Answered

\* C35's case: with after = 2, two after-lines were granted since the
\* request and the third call has answered false.
C35_Witness ==
    /\ ctx.op = "should_print_after_line"
    /\ ctx.after = 2
    /\ ctx.requested /\ ctx.granted = 2
    /\ ~ctx.value

\* C36: is_new_match_block(lineno) answers false while the last printed
\* line number is 0, and otherwise answers whether the number of the oldest
\* queued line, or lineno when the queue is empty, is greater than the
\* last printed line number plus one; the call leaves the queue, the
\* allowance and the last printed line number as they were.
C36_NewMatchBlock ==
    LET First == IF ctx.queue = <<>> THEN ctx.arg ELSE ctx.queue[1]
    IN  ctx.op = "is_new_match_block" =>
            /\ ctx.pre =
                <<ctx.queue, ctx.after_remaining, ctx.last_printed_lineno>>
            /\ ctx.last_printed_lineno = 0 => ~ctx.value
            /\ ctx.last_printed_lineno # 0 =>
                ctx.value = (First > ctx.last_printed_lineno + 1)

\* C36's case: line 1 was printed, line 3 is the oldest queued line, and
\* the call for the match on line 3 has answered true.
C36_Witness ==
    /\ ctx.op = "is_new_match_block"
    /\ ctx.last_printed_lineno = 1
    /\ ctx.queue # <<>> /\ ctx.queue[1] = 3
    /\ ctx.value


\* C37: during one traversal each directory, known by its device and
\* inode, has its entries enqueued at most once: a later encounter of the
\* same directory enqueues nothing and yields nothing, only directories
\* enqueue anything, and the iterator ends by returning None, symlink
\* loops or not.
C37_DirectoriesOnceAndEnds ==
    /\ [](/\ Len(fsi.log) < MaxPops
          /\ \A j \in DOMAIN fsi.log :
                /\ fsi.log[j].pushed > 0 => fsi.log[j].dir # 0
                /\ \A i \in 1..(j - 1) :
                      fsi.log[i].dir # 0 /\ fsi.log[i].dir = fsi.log[j].dir
                      => fsi.log[j].pushed = 0 /\ fsi.log[j].out = "none")
    /\ <>(fsi.done /\ fsi.stack = <<>>)

\* A traversal that follows symlinks came, through a symlink found in a
\* directory, back to a directory whose entries it had enqueued, and ended.
C37_Witness ==
    /\ fsi # <<>>
    /\ fsi.done
    /\ fsi.recurse = "FollowDirectorySymlinks"
    /\ \E j \in DOMAIN fsi.log : \E i \in 1..(j - 1) :
          /\ fsi.log[i].dir = fsi.log[j].dir
          /\ fsi.log[i].pushed > 0
          /\ fsi.fs[fsi.log[j].node].kind = "symlink"
          /\ fsi.log[j].node \in
                {fsi.fs[fsi.log[i].dir].entries[k] :
                    k \in DOMAIN fsi.fs[fsi.log[i].dir].entries}


\* C38: with recursion disabled every directory given as a haystack yields
\* an "Is a directory" error item and nothing is ever enqueued; with
\* non-dereferencing recursion a symlink found inside a directory yields
\* and enqueues nothing; the paths named on the command line are always
\* followed.
C38_DirectoriesWithoutRecursion ==
    \A j \in DOMAIN fsi.log :
        /\ fsi.recurse = "No"
           => /\ fsi.log[j].pushed = 0
              /\ fsi.log[j].dir # 0 => fsi.log[j].out = "Is a directory"
        /\ (/\ fsi.recurse = "FollowDirectories"
            /\ ~fsi.log[j].follow
            /\ fsi.fs[fsi.log[j].node].kind = "symlink")
           => fsi.log[j].pushed = 0 /\ fsi.log[j].out = "none"
        /\ j <= Len(fsi.files)
           => fsi.log[j].follow /\ fsi.log[j].node = fsi.files[j]


\* C39: in run() the candidates reported for a line are candidates found on
\* that line, each matches a needle, they are in the left-to-right order
\* of the line with none of them twice, and the match list is empty
\* whenever the next line is about to be read.
C39_ReportedOnceInOrder ==
    LET Cands(line) ==
            find_all_impl(line, AcceptCli, "TreatAsIp",
                          \E k \in 1..Len(run.needles) : ~run.needles[k].v6,
                          \E k \in 1..Len(run.needles) : run.needles[k].v6)
                .candidates
        OfLine(ms, cs) ==
            /\ \A j \in 1..Len(ms) :
                  /\ \E i \in 1..Len(cs) : cs[i] = ms[j]
                  /\ \E k \in 1..Len(run.needles) :
                        matches(run.match_mode, ms[j].net,
                                run.needles[k]).value
            /\ \A j \in 1..(Len(ms) - 1) :
                  ms[j].range[2] <= ms[j + 1].range[1]
    IN  /\ run.at = "read" => run.matches = <<>>
        /\ run.at = "report" => OfLine(run.matches, Cands(run.lines[run.lineno]))
        /\ \A r \in 1..Len(run.reported) :
              /\ run.reported[r].matches # <<>>
              /\ OfLine(run.reported[r].matches,
                        Cands(run.lines[run.reported[r].lineno]))
              /\ \A q \in 1..(r - 1) :
                    run.reported[q].lineno < run.reported[r].lineno

\* The line "2.2.2.2 1.1.1.1", of which the first candidate matches no
\* needle and the second both of two different needles, was reported with
\* the second one alone, and the next line is about to be read.
C39_Witness ==
    /\ run.at = "read"
    /\ Len(run.needles) = 2
    /\ run.needles[1] # run.needles[2]
    /\ \E r \in 1..Len(run.reported) :
          /\ Len(run.reported[r].matches) = 1
          /\ run.reported[r].matches[1].range = <<8, 15>>
          /\ run.lines[run.reported[r].lineno]
                = Join(<<<<50, 46, 50, 46, 50, 46, 50>>, WordHost>>)
          /\ \A k \in 1..2 :
                matches(run.match_mode, run.reported[r].matches[1].net,
                        run.needles[k]).value

====
